---------------------------- MODULE Spec2Model ----------------------------
(***************************************************************************)
(* TeenyJVM: the bytecode interpreter of src/jvm.c (execute and main).     *)
(*                                                                         *)
(* The host recursion of execute is an explicit sequence of frames; the    *)
(* last frame is the activation that is running.  A frame that has         *)
(* dispatched invokestatic stays at that instruction, with the arguments   *)
(* already popped, until its callee returns.                               *)
(*                                                                         *)
(* size_t values (pc, idx) are kept as integers; a negative number n       *)
(* stands for the wrapped value 2^64 + n, which addresses the same memory  *)
(* cell as base[n] and compares above every code_length.                   *)
(***************************************************************************)
EXTENDS Integers, Sequences, FiniteSets

(***************************************************************************)
(* Opcodes (enum of jvm.h, values of the JVM instruction set).             *)
(***************************************************************************)
i_nop == 0
i_iconst_m1 == 2
i_iconst_0 == 3
i_iconst_1 == 4
i_iconst_2 == 5
i_iconst_3 == 6
i_iconst_4 == 7
i_iconst_5 == 8
i_bipush == 16
i_sipush == 17
i_ldc == 18
i_iload == 21
i_aload == 25
i_iload_0 == 26
i_iload_1 == 27
i_iload_2 == 28
i_iload_3 == 29
i_aload_0 == 42
i_aload_1 == 43
i_aload_2 == 44
i_aload_3 == 45
i_iaload == 46
i_istore == 54
i_astore == 58
i_istore_0 == 59
i_istore_1 == 60
i_istore_2 == 61
i_istore_3 == 62
i_astore_0 == 75
i_astore_1 == 76
i_astore_2 == 77
i_astore_3 == 78
i_iastore == 79
i_dup == 89
i_iadd == 96
i_isub == 100
i_imul == 104
i_idiv == 108
i_irem == 112
i_ineg == 116
i_ishl == 120
i_ishr == 122
i_iushr == 124
i_iand == 126
i_ior == 128
i_ixor == 130
i_iinc == 132
i_ifeq == 153
i_ifne == 154
i_iflt == 155
i_ifge == 156
i_ifgt == 157
i_ifle == 158
i_if_icmpeq == 159
i_if_icmpne == 160
i_if_icmplt == 161
i_if_icmpge == 162
i_if_icmpgt == 163
i_if_icmple == 164
i_goto == 167
i_ireturn == 172
i_areturn == 176
i_return == 177
i_getstatic == 178
i_invokevirtual == 182
i_invokestatic == 184
i_newarray == 188
i_arraylength == 190

\* the case labels of the switch in execute
KnownOpcodes ==
    {i_nop, i_bipush, i_sipush, i_ldc, i_iload, i_aload, i_iaload, i_istore,
     i_astore, i_iastore, i_dup, i_iadd, i_isub, i_imul, i_idiv, i_irem,
     i_ineg, i_ishl, i_ishr, i_iushr, i_iand, i_ior, i_ixor, i_iinc, i_goto,
     i_ireturn, i_areturn, i_return, i_getstatic, i_invokevirtual,
     i_invokestatic, i_newarray, i_arraylength}
    \cup (i_iconst_m1 .. i_iconst_5) \cup (i_iload_0 .. i_iload_3)
    \cup (i_aload_0 .. i_aload_3) \cup (i_istore_0 .. i_istore_3)
    \cup (i_astore_0 .. i_astore_3) \cup (i_ifeq .. i_if_icmple)

(***************************************************************************)
(* int32_t.  TLC's integers are 32 bits wide and trap on overflow, so      *)
(* every operation below is written so that no intermediate value leaves   *)
(* [INT_MIN, INT_MAX].                                                     *)
(***************************************************************************)
INT_MAX == 2147483647
INT_MIN == -INT_MAX - 1
TwoTo16 == 65536

\* (int8_t) b for a byte b of the code array
SignExtend8(b) == IF b >= 128 THEN b - 256 ELSE b

\* (int16_t) (b1 << 8 | b2) for two bytes of the code array
SignExtend16(b1, b2) ==
    LET u == b1 * 256 + b2 IN IF u >= 32768 THEN u - TwoTo16 ELSE u

\* the two unsigned 16-bit halves of an int32_t
Lo16(a) == a % TwoTo16
Hi16(a) == (a \div TwoTo16) % TwoTo16

\* the int32_t whose unsigned halves are hi and lo
FromHalves(hi, lo) ==
    IF hi >= 32768 THEN (hi - TwoTo16) * TwoTo16 + lo ELSE hi * TwoTo16 + lo

\* a + b as the 32-bit add instruction computes it
Add32(a, b) ==
    LET lo == Lo16(a) + Lo16(b)
        hi == Hi16(a) + Hi16(b) + (lo \div TwoTo16)
    IN  FromHalves(hi % TwoTo16, lo % TwoTo16)

\* a - b as the 32-bit sub instruction computes it
Sub32(a, b) ==
    LET lo == Lo16(a) - Lo16(b)
        hi == Hi16(a) - Hi16(b) + (lo \div TwoTo16)
    IN  FromHalves(hi % TwoTo16, lo % TwoTo16)

\* (x * y) mod 2^16 for 0 <= x, y < 2^16
MulLo16(x, y) == (x * (y % 256) + ((x * (y \div 256)) % 256) * 256) % TwoTo16

\* a * b as the 32-bit imul instruction computes it (low 32 bits)
Mul32(a, b) ==
    LET al == Lo16(a)
        bl == Lo16(b)
        x0 == al * (bl % 256)
        x1 == al * (bl \div 256)
        lo == x0 + (x1 % 256) * 256
        hi == (x1 \div 256) + (lo \div TwoTo16)
              + MulLo16(Hi16(a), bl) + MulLo16(al, Hi16(b))
    IN  FromHalves(hi % TwoTo16, lo % TwoTo16)

\* a / b of C (truncation toward zero), b # 0 and not INT_MIN / -1
Div32(a, b) ==
    LET TruncPos(x, d) ==   \* d > 0
            IF x < 0 /\ x % d # 0 THEN (x \div d) + 1 ELSE x \div d
    IN  IF b > 0 THEN TruncPos(a, b)
        ELSE IF b = INT_MIN THEN (IF a = INT_MIN THEN 1 ELSE 0)
        ELSE -TruncPos(a, -b)

\* a % b of C (sign of the dividend), b # 0 and not INT_MIN % -1
Rem32(a, b) ==
    LET RemPos(x, d) ==     \* d > 0
            IF x < 0 /\ x % d # 0 THEN (x % d) - d ELSE x % d
    IN  IF b > 0 THEN RemPos(a, b)
        ELSE IF b = INT_MIN THEN (IF a = INT_MIN THEN 0 ELSE a)
        ELSE RemPos(a, -b)

\* 2^n for 0 <= n <= 30
Pow2(n) ==
    <<1, 2, 4, 8, 16, 32, 64, 128, 256, 512, 1024, 2048, 4096, 8192, 16384,
      32768, 65536, 131072, 262144, 524288, 1048576, 2097152, 4194304,
      8388608, 16777216, 33554432, 67108864, 134217728, 268435456,
      536870912, 1073741824>>[n + 1]

RECURSIVE Bits16(_, _, _, _)
\* bitwise combination of two unsigned 16-bit values, from bit i upwards
Bits16(f, x, y, i) ==
    IF i = 16 THEN 0
    ELSE f[(x \div Pow2(i)) % 2][(y \div Pow2(i)) % 2] * Pow2(i)
         + Bits16(f, x, y, i + 1)

AndBit == [p \in 0..1 |-> [q \in 0..1 |-> p * q]]
OrBit == [p \in 0..1 |-> [q \in 0..1 |-> IF p + q > 0 THEN 1 ELSE 0]]
XorBit == [p \in 0..1 |-> [q \in 0..1 |-> (p + q) % 2]]

Bitwise32(f, a, b) ==
    FromHalves(Bits16(f, Hi16(a), Hi16(b), 0), Bits16(f, Lo16(a), Lo16(b), 0))

\* a & b, a | b, a ^ b of C on int32_t
And32(a, b) == Bitwise32(AndBit, a, b)
Or32(a, b) == Bitwise32(OrBit, a, b)
Xor32(a, b) == Bitwise32(XorBit, a, b)

\* a << s for 0 <= s < 32: the low 32 bits of a * 2^s
ShlBy(a, s) ==
    IF s = 31 THEN (IF a % 2 = 1 THEN INT_MIN ELSE 0) ELSE Mul32(a, Pow2(s))

\* a >> s of C on int32_t (arithmetic), 0 <= s < 32
SarBy(a, s) == IF s = 31 THEN (IF a < 0 THEN -1 ELSE 0) ELSE a \div Pow2(s)

\* (u4) a >> s stored back into an int32_t, 0 <= s < 32
ShrBy(a, s) ==
    IF a >= 0 THEN SarBy(a, s)
    ELSE IF s = 0 THEN a
    ELSE IF s = 31 THEN 1
    ELSE ((a - INT_MIN) \div Pow2(s)) + Pow2(31 - s)

(***************************************************************************)
(* A shift count of 32 or more is undefined in C.  The builds differ: the  *)
(* x86 and AArch64 shift instructions use the count modulo 32, others      *)
(* shift every bit out.                                                    *)
(***************************************************************************)
Shl32(a, s) == IF s < 32 THEN {ShlBy(a, s)} ELSE {ShlBy(a, s % 32), 0}
Sar32(a, s) ==
    IF s < 32 THEN {SarBy(a, s)}
    ELSE {SarBy(a, s % 32), IF a < 0 THEN -1 ELSE 0}
Shr32(a, s) == IF s < 32 THEN {ShrBy(a, s)} ELSE {ShrBy(a, s % 32), 0}

(***************************************************************************)
(* printf("%i\n", v): the decimal digits of v, '-' first when v < 0.  A    *)
(* line is the sequence of its characters without the newline.             *)
(***************************************************************************)
DigitChar == <<"0", "1", "2", "3", "4", "5", "6", "7", "8", "9">>

RECURSIVE Digits(_)
\* the digits of n >= 0
Digits(n) ==
    IF n < 10 THEN <<DigitChar[n + 1]>>
    ELSE Append(Digits(n \div 10), DigitChar[(n % 10) + 1])

FormatInt(v) ==
    IF v >= 0 THEN Digits(v)
    ELSE LET last == (10 - (v % 10)) % 10        \* last digit of |v|
             rest == -((v + last) \div 10)       \* |v| without it
         IN  <<"-">> \o (IF rest = 0 THEN <<>> ELSE Digits(rest))
                     \o <<DigitChar[last + 1]>>

(***************************************************************************)
(* The class image (read_class.h): constant_pool is indexed from 1; a      *)
(* method has a name, a descriptor and its code attribute.  The code       *)
(* array is given by its bytes other than 0x00: code is a function on the  *)
(* addresses that hold one, and every other address below code_length      *)
(* holds 0x00 (nop).  A                                                    *)
(* descriptor is the sequence of its type tokens between "(" and ")",      *)
(* followed by the return type.                                            *)
(***************************************************************************)
\* the byte at address a of a code attribute
CodeByte(c, a) == IF a \in DOMAIN c.code THEN c.code[a] ELSE i_nop

VARIABLES
    class,      \* class_file_t *class: the image get_class parsed
    frames,     \* the activations of execute, outermost first
    heap,       \* heap_t *heap: the arrays added so far, reference r at r + 1
    out,        \* the lines written to standard output (file descriptor 1)
    unwritten,  \* the lines printf has left in the buffer of stdout
    line_buffered,  \* whether stdout refers to an interactive device
    status      \* "Running", "Exited", "Fault" (assert), "Crash" (trap)

vars == <<class, frames, heap, out, unwritten, line_buffered, status>>

Top == Len(frames)
Cur == frames[Top]
method == class.methods[Cur.method]
code_length == method.code.code_length
max_stack == method.code.max_stack
max_locals == method.code.max_locals
pc == Cur.pc
idx == Cur.idx
stack == Cur.stack
locals == Cur.locals

\* bytecode[a] of the running method
bytecode(a) == CodeByte(method.code, a)

\* while (pc < method->code.code_length), pc an unsigned size_t
InLoop == status = "Running" /\ Top >= 1 /\ pc >= 0 /\ pc < code_length

\* u1 instruction = bytecode[pc]; switch (instruction) { case op: ...
Dispatch(op) == InLoop /\ bytecode(pc) = op

\* (int16_t)(bytecode[pc + 1] << 8 | bytecode[pc + 2])
Operand16 == SignExtend16(bytecode(pc + 1), bytecode(pc + 2))

(***************************************************************************)
(* An access outside an array is undefined: a read yields whatever the     *)
(* neighbouring memory holds, a write lands outside the array (or the      *)
(* access traps: action Trap).                                             *)
(***************************************************************************)
Garbage == {0, 57}

Rd(arr, i) == IF i \in DOMAIN arr THEN {arr[i]} ELSE Garbage
Wr(arr, i, v) == IF i \in DOMAIN arr THEN [arr EXCEPT ![i] = v] ELSE arr

\* the frame of the running activation after one instruction
SetFrame(newpc, newstack, newidx, newlocals) ==
    frames' = [frames EXCEPT ![Top] =
                  [@ EXCEPT !.pc = newpc, !.stack = newstack,
                            !.idx = newidx, !.locals = newlocals]]

\* calloc(n, sizeof(int32_t)) viewed as an array indexed from 0
Calloc(n) == [i \in 0 .. n - 1 |-> 0]

\* a fresh activation of execute(m, locals, ...): lines 47-50
NewFrame(m, newlocals) ==
    [method |-> m, pc |-> 0, stack |-> Calloc(class.methods[m].code.max_stack),
     idx |-> 0, locals |-> newlocals]

(***************************************************************************)
(* read_class.h and heap.h, whose implementations are not part of jvm.c.   *)
(***************************************************************************)
\* find_method(name, descriptor, class): the first method with that name
\* and descriptor, 0 (NULL) when there is none
find_method(name, descriptor, cls) ==
    LET hits == {m \in DOMAIN cls.methods :
                    /\ cls.methods[m].name = name
                    /\ cls.methods[m].descriptor = descriptor}
    IN  IF hits = {} THEN 0 ELSE CHOOSE m \in hits : \A n \in hits : m <= n

\* whether the constant at the 1-based index i has the given tag
TaggedAt(cls, i, tag) ==
    IF i \in DOMAIN cls.constant_pool THEN cls.constant_pool[i].tag = tag
    ELSE FALSE

IntegerConstantAt(cls, i) == TaggedAt(cls, i, "Integer")

\* find_method_from_index(index, class): the method the Methodref constant
\* at the 1-based index names
find_method_from_index(index, cls) ==
    IF TaggedAt(cls, index, "Methodref")
    THEN find_method(cls.constant_pool[index].name,
                     cls.constant_pool[index].descriptor, cls)
    ELSE 0

\* get_number_of_parameters(method): the parameter types of the descriptor
get_number_of_parameters(m) ==
    (CHOOSE k \in DOMAIN m.descriptor : m.descriptor[k] = ")") - 2

\* heap_add with references counted from 1
heap_add_from_one(h, arr) == [heap |-> Append(h, arr), reference |-> Len(h) + 1]

\* heap_add(heap, ptr): append, the reference is the previous count
heap_add(h, arr) == [heap |-> Append(h, arr), reference |-> Len(h)]

\* heap_get(heap, ref)
heap_get(h, ref) == h[ref + 1]

MAIN_METHOD == "main"
MAIN_DESCRIPTOR == <<"(", "[Ljava/lang/String;", ")", "V">>

(***************************************************************************)
(* The ways execution stops short.                                         *)
(***************************************************************************)
\* a failed assert: abort()
Abort ==
    /\ status' = "Fault"
    /\ UNCHANGED <<class, frames, heap, out, unwritten, line_buffered>>

\* a trap raised by the hardware for an undefined operation
Crash ==
    /\ status' = "Crash"
    /\ UNCHANGED <<class, frames, heap, out, unwritten, line_buffered>>

(***************************************************************************)
(* return of execute.  In main (lines 427-434) the result is asserted to   *)
(* be void and the heap is freed; in a caller the rest of case             *)
(* i_invokestatic runs (lines 320-326).                                    *)
(***************************************************************************)
\* the rest of case i_invokestatic with idx += 1 left out
ReturnToCallerKeepingDepth(has_value, value) ==
    LET caller == frames[Top - 1]
        resumed == [caller EXCEPT
                       !.stack = IF has_value THEN Wr(@, caller.idx, value) ELSE @,
                       !.pc = @ + 3]
    IN  /\ frames' = Append(SubSeq(frames, 1, Top - 2), resumed)
        /\ UNCHANGED <<class, heap, out, unwritten, line_buffered, status>>

ReturnToCaller(has_value, value) ==
    LET caller == frames[Top - 1]
        resumed == [caller EXCEPT
                       !.stack = IF has_value THEN Wr(@, caller.idx, value) ELSE @,
                       !.idx = IF has_value THEN @ + 1 ELSE @,
                       !.pc = @ + 3]
    IN  /\ frames' = Append(SubSeq(frames, 1, Top - 2), resumed)
        /\ UNCHANGED <<class, heap, out, unwritten, line_buffered, status>>

\* main's result taken without the assert on has_value
ReturnToMainAnyResult(has_value) ==
    /\ frames' = <<>>
    /\ status' = "Exited"
    /\ heap' = <<>>
    /\ out' = out \o unwritten
    /\ unwritten' = <<>>
    /\ UNCHANGED <<class, line_buffered>>

\* the failed assert aborts with the buffer of stdout as it is; return 0
\* from main ends the process through exit, which writes the buffer out
ReturnToMain(has_value) ==
    /\ frames' = <<>>
    /\ status' = IF has_value THEN "Fault" ELSE "Exited"
    /\ heap' = IF has_value THEN heap ELSE <<>>
    /\ out' = IF has_value THEN out ELSE out \o unwritten
    /\ unwritten' = IF has_value THEN unwritten ELSE <<>>
    /\ UNCHANGED <<class, line_buffered>>

Return(has_value, value) ==
    IF Top = 1 THEN ReturnToMain(has_value)
    ELSE ReturnToCaller(has_value, value)

(***************************************************************************)
(* execute: one action for each case of the switch.                        *)
(***************************************************************************)
StackOnly(newpc, newstack, newidx) ==
    /\ SetFrame(newpc, newstack, newidx, locals)
    /\ UNCHANGED <<class, heap, out, unwritten, line_buffered, status>>

\* a binary operator case that leaves out idx -= 1
BinaryKeepingDepth(result) == StackOnly(pc + 1, Wr(stack, idx - 2, result), idx)

(***************************************************************************)
(* The stack of a callee is calloc'ed after the stack of its caller (line  *)
(* 49 of each execute), so a store below the callee's array lands in       *)
(* memory allocated before it: how far below it reaches the caller's       *)
(* stack depends on the allocator.  The outcomes are the activations       *)
(* under the running one as they are, or with one cell of the caller's     *)
(* stack overwritten.                                                      *)
(***************************************************************************)
StoreBelow(v) ==
    LET under == SubSeq(frames, 1, Top - 1)
    IN  {under} \cup {[under EXCEPT ![Top - 1].stack[c] = v] :
                         c \in DOMAIN frames[Top - 1].stack}

\* a binary operator case: stack[idx - 2] = F(...); idx -= 1; pc += 1
Binary(result) ==
    IF idx - 2 >= 0 \/ Top = 1
    THEN StackOnly(pc + 1, Wr(stack, idx - 2, result), idx - 1)
    ELSE /\ \E under \in StoreBelow(result) :
               frames' = Append(under, [Cur EXCEPT !.pc = pc + 1, !.idx = idx - 1])
         /\ UNCHANGED <<class, heap, out, unwritten, line_buffered, status>>

\* the default case advancing over two operand bytes
case_default_over_operands ==
    /\ InLoop
    /\ bytecode(pc) \notin KnownOpcodes
    /\ StackOnly(pc + 3, stack, idx)

case_default ==
    /\ InLoop
    /\ bytecode(pc) \notin KnownOpcodes
    /\ StackOnly(pc + 1, stack, idx)

case_i_bipush ==
    /\ Dispatch(i_bipush)
    /\ StackOnly(pc + 2, Wr(stack, idx, SignExtend8(bytecode(pc + 1))), idx + 1)

case_i_iadd ==
    /\ Dispatch(i_iadd)
    /\ \E b \in Rd(stack, idx - 1), a \in Rd(stack, idx - 2) :
          Binary(Add32(b, a))

case_i_return ==
    /\ Dispatch(i_return)
    /\ Return(FALSE, 0)

case_i_getstatic ==
    /\ Dispatch(i_getstatic)
    /\ StackOnly(pc + 3, stack, idx)

(***************************************************************************)
(* printf("%i\n", v).  stdout is line buffered when it refers to an        *)
(* interactive device: the line is written when its newline is printed.   *)
(* Otherwise stdout is fully buffered: the line stays in the buffer until  *)
(* the buffer is full (which the few lines of a run below never reach) or  *)
(* the process exits; a process that aborts or is killed by a signal       *)
(* leaves the buffer unwritten.                                            *)
(***************************************************************************)
printf(v) ==
    /\ out' = IF line_buffered THEN out \o Append(unwritten, FormatInt(v)) ELSE out
    /\ unwritten' = IF line_buffered THEN <<>> ELSE Append(unwritten, FormatInt(v))
    /\ UNCHANGED line_buffered

case_i_invokevirtual ==
    /\ Dispatch(i_invokevirtual)
    /\ \E v \in Rd(stack, idx - 1) :
          /\ printf(v)
          /\ SetFrame(pc + 3, stack, idx - 1, locals)
    /\ UNCHANGED <<class, heap, status>>

case_i_iconst ==
    /\ InLoop
    /\ bytecode(pc) \in i_iconst_m1 .. i_iconst_5
    /\ StackOnly(pc + 1,
                 Wr(stack, idx, SignExtend8((bytecode(pc) - i_iconst_0) % 256)),
                 idx + 1)

case_i_sipush ==
    /\ Dispatch(i_sipush)
    /\ StackOnly(pc + 3, Wr(stack, idx, Operand16), idx + 1)

case_i_isub ==
    /\ Dispatch(i_isub)
    /\ \E b \in Rd(stack, idx - 1), a \in Rd(stack, idx - 2) :
          Binary(Sub32(a, b))

case_i_imul ==
    /\ Dispatch(i_imul)
    /\ \E b \in Rd(stack, idx - 1), a \in Rd(stack, idx - 2) :
          Binary(Mul32(b, a))

(***************************************************************************)
(* INT_MIN / -1 and INT_MIN % -1 are undefined in C: the x86 idiv          *)
(* instruction traps (SIGFPE), the AArch64 sdiv yields INT_MIN and the     *)
(* remainder 0.                                                            *)
(***************************************************************************)
\* case i_idiv with the assert on the dividend: a zero divisor reaches the
\* division, which traps
case_i_idiv_checking_dividend ==
    /\ Dispatch(i_idiv)
    /\ \E b \in Rd(stack, idx - 1), a \in Rd(stack, idx - 2) :
          IF a = 0 THEN Abort
          ELSE IF b = 0 THEN Crash
          ELSE IF a = INT_MIN /\ b = -1
               THEN \E trap \in BOOLEAN :
                       IF trap THEN Crash ELSE Binary(INT_MIN)
               ELSE Binary(Div32(a, b))

case_i_idiv ==
    /\ Dispatch(i_idiv)
    /\ \E b \in Rd(stack, idx - 1), a \in Rd(stack, idx - 2) :
          IF b = 0 THEN Abort
          ELSE IF a = INT_MIN /\ b = -1
               THEN \E trap \in BOOLEAN :
                       IF trap THEN Crash ELSE Binary(INT_MIN)
               ELSE Binary(Div32(a, b))

case_i_irem ==
    /\ Dispatch(i_irem)
    /\ \E b \in Rd(stack, idx - 1), a \in Rd(stack, idx - 2) :
          IF b = 0 THEN Abort
          ELSE IF a = INT_MIN /\ b = -1
               THEN \E trap \in BOOLEAN :
                       IF trap THEN Crash ELSE Binary(0)
               ELSE Binary(Rem32(a, b))

case_i_ineg ==
    /\ Dispatch(i_ineg)
    /\ \E a \in Rd(stack, idx - 1) :
          StackOnly(pc + 1, Wr(stack, idx - 1, Mul32(-1, a)), idx)

case_i_ishl ==
    /\ Dispatch(i_ishl)
    /\ \E b \in Rd(stack, idx - 1), a \in Rd(stack, idx - 2) :
          IF b < 0 THEN Abort
          ELSE \E r \in Shl32(a, b) : Binary(r)

case_i_ishr ==
    /\ Dispatch(i_ishr)
    /\ \E b \in Rd(stack, idx - 1), a \in Rd(stack, idx - 2) :
          IF b < 0 THEN Abort
          ELSE \E r \in Sar32(a, b) : Binary(r)

case_i_iushr ==
    /\ Dispatch(i_iushr)
    /\ \E b \in Rd(stack, idx - 1), a \in Rd(stack, idx - 2) :
          IF b < 0 THEN Abort
          ELSE \E r \in Shr32(a, b) : Binary(r)

case_i_iand ==
    /\ Dispatch(i_iand)
    /\ \E b \in Rd(stack, idx - 1), a \in Rd(stack, idx - 2) :
          Binary(And32(b, a))

case_i_ior ==
    /\ Dispatch(i_ior)
    /\ \E b \in Rd(stack, idx - 1), a \in Rd(stack, idx - 2) :
          Binary(Or32(b, a))

case_i_ixor ==
    /\ Dispatch(i_ixor)
    /\ \E b \in Rd(stack, idx - 1), a \in Rd(stack, idx - 2) :
          Binary(Xor32(b, a))

\* stack[idx] = locals[n]; idx += 1
Load(n, len) ==
    \E v \in Rd(locals, n) : StackOnly(pc + len, Wr(stack, idx, v), idx + 1)

\* locals[n] = stack[idx - 1]; idx -= 1
Store(n, len) ==
    /\ \E v \in Rd(stack, idx - 1) :
          SetFrame(pc + len, stack, idx - 1, Wr(locals, n, v))
    /\ UNCHANGED <<class, heap, out, unwritten, line_buffered, status>>

case_i_iload ==
    /\ Dispatch(i_iload)
    /\ Load(bytecode(pc + 1), 2)

case_i_istore ==
    /\ Dispatch(i_istore)
    /\ Store(bytecode(pc + 1), 2)

case_i_iinc ==
    /\ Dispatch(i_iinc)
    /\ \E v \in Rd(locals, bytecode(pc + 1)) :
          SetFrame(pc + 3, stack, idx,
                   Wr(locals, bytecode(pc + 1),
                      Add32(v, SignExtend8(bytecode(pc + 2)))))
    /\ UNCHANGED <<class, heap, out, unwritten, line_buffered, status>>

case_i_iload_n ==
    /\ InLoop
    /\ bytecode(pc) \in i_iload_0 .. i_iload_3
    /\ Load(bytecode(pc) - i_iload_0, 1)

case_i_istore_n ==
    /\ InLoop
    /\ bytecode(pc) \in i_istore_0 .. i_istore_3
    /\ Store(bytecode(pc) - i_istore_0, 1)

\* ((CONSTANT_Integer_info *) class->constant_pool[i - 1].info)->bytes:
\* the entry is read as an integer constant whatever its tag
ConstantBytes(i) ==
    IF IntegerConstantAt(class, i) THEN {class.constant_pool[i].bytes}
    ELSE Garbage

case_i_ldc ==
    /\ Dispatch(i_ldc)
    /\ \E v \in ConstantBytes(bytecode(pc + 1)) :
          StackOnly(pc + 2, Wr(stack, idx, v), idx + 1)

\* a branch whose offset counts from the instruction after the branch
BranchFromNext(taken, n) ==
    StackOnly(IF taken THEN pc + 3 + Operand16 ELSE pc + 3, stack, idx - n)

\* if (taken) { pc += (int16_t)(...); idx -= n; break; } pc += 3; idx -= n;
Branch(taken, n) ==
    StackOnly(IF taken THEN pc + Operand16 ELSE pc + 3, stack, idx - n)

case_i_ifeq ==
    /\ Dispatch(i_ifeq)
    /\ \E v \in Rd(stack, idx - 1) : Branch(v = 0, 1)

case_i_ifne ==
    /\ Dispatch(i_ifne)
    /\ \E v \in Rd(stack, idx - 1) : Branch(v # 0, 1)

case_i_iflt ==
    /\ Dispatch(i_iflt)
    /\ \E v \in Rd(stack, idx - 1) : Branch(v < 0, 1)

case_i_ifge ==
    /\ Dispatch(i_ifge)
    /\ \E v \in Rd(stack, idx - 1) : Branch(v >= 0, 1)

case_i_ifgt ==
    /\ Dispatch(i_ifgt)
    /\ \E v \in Rd(stack, idx - 1) : Branch(v > 0, 1)

case_i_ifle ==
    /\ Dispatch(i_ifle)
    /\ \E v \in Rd(stack, idx - 1) : Branch(v <= 0, 1)

case_i_if_icmpeq ==
    /\ Dispatch(i_if_icmpeq)
    /\ \E b \in Rd(stack, idx - 1), a \in Rd(stack, idx - 2) : Branch(b = a, 2)

case_i_if_icmpne ==
    /\ Dispatch(i_if_icmpne)
    /\ \E b \in Rd(stack, idx - 1), a \in Rd(stack, idx - 2) : Branch(b # a, 2)

\* case i_if_icmplt comparing the operands the other way round
case_i_if_icmplt_swapped ==
    /\ Dispatch(i_if_icmplt)
    /\ \E b \in Rd(stack, idx - 1), a \in Rd(stack, idx - 2) : Branch(b < a, 2)

case_i_if_icmplt ==
    /\ Dispatch(i_if_icmplt)
    /\ \E b \in Rd(stack, idx - 1), a \in Rd(stack, idx - 2) : Branch(a < b, 2)

case_i_if_icmpge ==
    /\ Dispatch(i_if_icmpge)
    /\ \E b \in Rd(stack, idx - 1), a \in Rd(stack, idx - 2) : Branch(a >= b, 2)

case_i_if_icmpgt ==
    /\ Dispatch(i_if_icmpgt)
    /\ \E b \in Rd(stack, idx - 1), a \in Rd(stack, idx - 2) : Branch(a > b, 2)

case_i_if_icmple ==
    /\ Dispatch(i_if_icmple)
    /\ \E b \in Rd(stack, idx - 1), a \in Rd(stack, idx - 2) : Branch(a <= b, 2)

\* case i_goto with the offset subtracted
case_i_goto_subtracting ==
    /\ Dispatch(i_goto)
    /\ StackOnly(pc - Operand16, stack, idx)

case_i_goto ==
    /\ Dispatch(i_goto)
    /\ StackOnly(pc + Operand16, stack, idx)

case_i_ireturn ==
    /\ Dispatch(i_ireturn)
    /\ \E v \in Rd(stack, idx - 1) : Return(TRUE, v)

(***************************************************************************)
(* case i_invokestatic up to the recursive call (lines 309-319): the       *)
(* callee's locals are filled from the top of the caller's stack and a     *)
(* new activation starts.  The host recursion is as deep as the host       *)
(* stack allows: MaxFrames activations.                                    *)
(***************************************************************************)
MaxFrames == 4

\* local_queue filled in the order the parameters are popped: the top of
\* the stack in local_queue[0]
LocalQueuesTopFirst(m, n) ==
    LET size == class.methods[m].code.max_locals
        Arg(i) == Rd(stack, idx - 1 - i)
        args == {f \in [0 .. n - 1 -> UNION {Arg(i) : i \in 0 .. n - 1}] :
                    \A i \in 0 .. n - 1 : f[i] \in Arg(i)}
    IN  {[i \in 0 .. size - 1 |-> IF i < n THEN f[i] ELSE 0] : f \in args}

\* local_queue after the loop of lines 314-317, n parameters popped
LocalQueues(m, n) ==
    LET size == class.methods[m].code.max_locals
        Arg(i) == Rd(stack, idx - n + i)
        args == {f \in [0 .. n - 1 -> UNION {Arg(i) : i \in 0 .. n - 1}] :
                    \A i \in 0 .. n - 1 : f[i] \in Arg(i)}
    IN  {[i \in 0 .. size - 1 |-> IF i < n THEN f[i] ELSE 0] : f \in args}

case_i_invokestatic ==
    /\ Dispatch(i_invokestatic)
    /\ LET method_call == find_method_from_index(Operand16, class)
       IN  IF method_call = 0 \/ Top >= MaxFrames THEN Crash
           ELSE LET n == get_number_of_parameters(class.methods[method_call])
                IN  \E local_queue \in LocalQueues(method_call, n) :
                       /\ frames' = Append(
                              [frames EXCEPT ![Top].idx = idx - n],
                              NewFrame(method_call, local_queue))
                       /\ UNCHANGED <<class, heap, out, unwritten, line_buffered, status>>

case_i_nop ==
    /\ Dispatch(i_nop)
    /\ StackOnly(pc + 1, stack, idx)

case_i_dup ==
    /\ Dispatch(i_dup)
    /\ \E v \in Rd(stack, idx - 1) :
          StackOnly(pc + 1, Wr(stack, idx, v), idx + 1)

\* whether ref was issued by heap_add
Issued(ref) == ref >= 0 /\ ref < Len(heap)

\* heap_get(heap, ref)[k]
HeapRd(ref, k) == IF Issued(ref) THEN Rd(heap_get(heap, ref), k) ELSE Garbage

\* the store made at index k of every array of the heap
HeapWrEvery(ref, k, v) ==
    IF Issued(ref) THEN [r \in DOMAIN heap |-> Wr(heap[r], k, v)] ELSE heap

\* heap_get(heap, ref)[k] = v
HeapWr(ref, k, v) ==
    IF Issued(ref) THEN [heap EXCEPT ![ref + 1] = Wr(@, k, v)] ELSE heap

\* case i_newarray with the assert after heap_add
case_i_newarray_adding_first ==
    /\ Dispatch(i_newarray)
    /\ \E n \in Rd(stack, idx - 1) :
          LET new_arr == [i \in 0 .. n |-> IF i = 0 THEN n ELSE 0]
              added == heap_add(heap, new_arr)
          IN  /\ heap' = added.heap
              /\ IF n < 0
                 THEN /\ status' = "Fault"
                      /\ UNCHANGED <<class, frames, out, unwritten, line_buffered>>
                 ELSE /\ SetFrame(pc + 2, Wr(stack, idx - 1, added.reference),
                                  idx, locals)
                      /\ UNCHANGED <<class, out, unwritten, line_buffered, status>>

case_i_newarray ==
    /\ Dispatch(i_newarray)
    /\ \E n \in Rd(stack, idx - 1) :
          IF n < 0 THEN Abort
          ELSE LET new_arr == [i \in 0 .. n |-> IF i = 0 THEN n ELSE 0]
                   added == heap_add(heap, new_arr)
               IN  /\ heap' = added.heap
                   /\ SetFrame(pc + 2, Wr(stack, idx - 1, added.reference),
                               idx, locals)
                   /\ UNCHANGED <<class, out, unwritten, line_buffered, status>>

\* case i_arraylength reading the first element instead of slot 0
case_i_arraylength_first_element ==
    /\ Dispatch(i_arraylength)
    /\ \E ref \in Rd(stack, idx - 1) : \E len \in HeapRd(ref, 1) :
          StackOnly(pc + 1, Wr(stack, idx - 1, len), idx)

case_i_arraylength ==
    /\ Dispatch(i_arraylength)
    /\ \E ref \in Rd(stack, idx - 1) : \E len \in HeapRd(ref, 0) :
          StackOnly(pc + 1, Wr(stack, idx - 1, len), idx)

case_i_areturn ==
    /\ Dispatch(i_areturn)
    /\ \E v \in Rd(stack, idx - 1) : Return(TRUE, v)

\* case i_iastore without the + 1 that skips the length slot
case_i_iastore_unshifted ==
    /\ Dispatch(i_iastore)
    /\ \E ref \in Rd(stack, idx - 3), i \in Rd(stack, idx - 2),
          v \in Rd(stack, idx - 1) :
          /\ heap' = HeapWr(ref, i, v)
          /\ SetFrame(pc + 1, stack, idx - 3, locals)
    /\ UNCHANGED <<class, out, unwritten, line_buffered, status>>

case_i_iastore ==
    /\ Dispatch(i_iastore)
    /\ \E ref \in Rd(stack, idx - 3), i \in Rd(stack, idx - 2),
          v \in Rd(stack, idx - 1) :
          /\ heap' = HeapWr(ref, Add32(i, 1), v)
          /\ SetFrame(pc + 1, stack, idx - 3, locals)
    /\ UNCHANGED <<class, out, unwritten, line_buffered, status>>

case_i_iaload ==
    /\ Dispatch(i_iaload)
    /\ \E ref \in Rd(stack, idx - 2), i \in Rd(stack, idx - 1) :
          \E v \in HeapRd(ref, Add32(i, 1)) :
             StackOnly(pc + 1, Wr(stack, idx - 2, v), idx - 1)

case_i_aload ==
    /\ Dispatch(i_aload)
    /\ Load(bytecode(pc + 1), 2)

case_i_astore ==
    /\ Dispatch(i_astore)
    /\ Store(bytecode(pc + 1), 2)

case_i_aload_n ==
    /\ InLoop
    /\ bytecode(pc) \in i_aload_0 .. i_aload_3
    /\ Load(bytecode(pc) - i_aload_0, 1)

case_i_astore_n ==
    /\ InLoop
    /\ bytecode(pc) \in i_astore_0 .. i_astore_3
    /\ Store(bytecode(pc) - i_astore_0, 1)

\* the loop condition fails: lines 396-398
execute_end ==
    /\ status = "Running"
    /\ Top >= 1
    /\ ~(pc >= 0 /\ pc < code_length)
    /\ Return(FALSE, 0)

(***************************************************************************)
(* The cells an instruction touches, read off its case: the stack cells    *)
(* relative to idx, the local it names, the heap cell, the constant.  An   *)
(* instruction that touches memory outside these arrays is undefined; on   *)
(* top of the outcomes Rd and Wr give it, the access may trap.             *)
(***************************************************************************)
StackCells(op) ==
    IF op \in {i_bipush, i_sipush, i_ldc, i_iload, i_aload}
              \cup (i_iconst_m1 .. i_iconst_5) \cup (i_iload_0 .. i_iload_3)
              \cup (i_aload_0 .. i_aload_3)
    THEN {0}
    ELSE IF op \in {i_iadd, i_isub, i_imul, i_idiv, i_irem, i_ishl, i_ishr,
                    i_iushr, i_iand, i_ior, i_ixor, i_iaload}
                   \cup (i_if_icmpeq .. i_if_icmple)
    THEN {-1, -2}
    ELSE IF op \in {i_ineg, i_invokevirtual, i_istore, i_astore, i_ireturn,
                    i_areturn, i_newarray, i_arraylength}
                   \cup (i_istore_0 .. i_istore_3) \cup (i_astore_0 .. i_astore_3)
                   \cup (i_ifeq .. i_ifle)
    THEN {-1}
    ELSE IF op = i_dup THEN {-1, 0}
    ELSE IF op = i_iastore THEN {-1, -2, -3}
    ELSE IF op = i_invokestatic
    THEN LET m == find_method_from_index(Operand16, class)
         IN  IF m = 0 THEN {}
             ELSE {-k : k \in 1 .. get_number_of_parameters(class.methods[m])}
    ELSE {}

LocalCells(op) ==
    IF op \in {i_iload, i_aload, i_istore, i_astore, i_iinc}
    THEN {bytecode(pc + 1)}
    ELSE IF op \in i_iload_0 .. i_iload_3 THEN {op - i_iload_0}
    ELSE IF op \in i_aload_0 .. i_aload_3 THEN {op - i_aload_0}
    ELSE IF op \in i_istore_0 .. i_istore_3 THEN {op - i_istore_0}
    ELSE IF op \in i_astore_0 .. i_astore_3 THEN {op - i_astore_0}
    ELSE {}

\* whether heap_get(heap, ref)[i + 1] lies in an array that was added
HeapCellOk(ref, i) == Issued(ref) /\ Add32(i, 1) \in DOMAIN heap_get(heap, ref)

\* the assert that opens the case fails on a value that is on the stack:
\* nothing else of the case is evaluated
AssertFails ==
    LET op == bytecode(pc)
    IN  IF idx - 1 \notin DOMAIN stack THEN FALSE
        ELSE IF op \in {i_idiv, i_irem} THEN stack[idx - 1] = 0
        ELSE IF op \in {i_ishl, i_ishr, i_iushr, i_newarray} THEN stack[idx - 1] < 0
        ELSE FALSE

OutOfBounds ==
    LET op == bytecode(pc)
        m == find_method_from_index(Operand16, class)
    IN  IF AssertFails THEN FALSE
        ELSE IF \E o \in StackCells(op) : idx + o \notin DOMAIN stack THEN TRUE
        ELSE IF \E n \in LocalCells(op) : n \notin DOMAIN locals THEN TRUE
        ELSE IF op = i_ldc THEN ~IntegerConstantAt(class, bytecode(pc + 1))
        ELSE IF op = i_invokestatic
        THEN IF m = 0 THEN FALSE
             ELSE get_number_of_parameters(class.methods[m])
                     > class.methods[m].code.max_locals
        ELSE IF op = i_arraylength THEN ~Issued(stack[idx - 1])
        ELSE IF op = i_iastore THEN ~HeapCellOk(stack[idx - 3], stack[idx - 2])
        ELSE IF op = i_iaload THEN ~HeapCellOk(stack[idx - 2], stack[idx - 1])
        ELSE FALSE

Trap ==
    /\ InLoop
    /\ OutOfBounds
    /\ Crash

(***************************************************************************)
(* Well-formed class files.  Every opcode has a declared encoded length    *)
(* and declared pop and push counts (an invokestatic pops the parameters   *)
(* its callee's descriptor declares and pushes the value it declares).  A  *)
(* method is stack-well-formed when, along every path of its code from     *)
(* address 0 at depth 0, the depth computed from the declared counts stays *)
(* within [0, max_stack] and the method returns a value exactly when its   *)
(* descriptor declares one.                                                *)
(***************************************************************************)
Loads == {i_iload, i_aload} \cup (i_iload_0 .. i_iload_3) \cup (i_aload_0 .. i_aload_3)
Stores == {i_istore, i_astore} \cup (i_istore_0 .. i_istore_3) \cup (i_astore_0 .. i_astore_3)
Pushers == {i_bipush, i_sipush, i_ldc} \cup (i_iconst_m1 .. i_iconst_5)
TwoToOne == {i_iadd, i_isub, i_imul, i_idiv, i_irem, i_ishl, i_ishr, i_iushr,
             i_iand, i_ior, i_ixor}
Branches1 == i_ifeq .. i_ifle
Branches2 == i_if_icmpeq .. i_if_icmple
Returns == {i_ireturn, i_areturn, i_return}

DeclaredLength(op) ==
    IF op \in {i_bipush, i_ldc, i_iload, i_aload, i_istore, i_astore, i_newarray}
    THEN 2
    ELSE IF op \in {i_sipush, i_iinc, i_goto, i_getstatic, i_invokevirtual,
                    i_invokestatic} \cup Branches1 \cup Branches2
    THEN 3
    ELSE 1

ReturnsValue(m) == m.descriptor[Len(m.descriptor)] # "V"

\* the callee an invokestatic at address a of code c names (0: none)
Callee(cls, c, a) ==
    find_method_from_index(SignExtend16(CodeByte(c, a + 1), CodeByte(c, a + 2)), cls)

DeclaredPops(cls, c, a) ==
    LET op == CodeByte(c, a)
    IN  IF op \in TwoToOne \cup Branches2 \cup {i_iaload} THEN 2
        ELSE IF op \in Stores \cup Branches1
                       \cup {i_ineg, i_dup, i_invokevirtual, i_ireturn,
                             i_areturn, i_newarray, i_arraylength}
        THEN 1
        ELSE IF op = i_iastore THEN 3
        ELSE IF op = i_invokestatic /\ Callee(cls, c, a) # 0
        THEN get_number_of_parameters(cls.methods[Callee(cls, c, a)])
        ELSE 0

DeclaredPushes(cls, c, a) ==
    LET op == CodeByte(c, a)
    IN  IF op \in Pushers \cup Loads \cup TwoToOne
                  \cup {i_ineg, i_newarray, i_arraylength, i_iaload}
        THEN 1
        ELSE IF op = i_dup THEN 2
        ELSE IF op = i_invokestatic /\ Callee(cls, c, a) # 0
        THEN (IF ReturnsValue(cls.methods[Callee(cls, c, a)]) THEN 1 ELSE 0)
        ELSE 0

\* the addresses control can reach next from the instruction at a
Successors(c, a) ==
    LET op == CodeByte(c, a)
        target == a + SignExtend16(CodeByte(c, a + 1), CodeByte(c, a + 2))
    IN  IF op \in Returns THEN {}
        ELSE IF op = i_goto THEN {target}
        ELSE IF op \in Branches1 \cup Branches2 THEN {target, a + 3}
        ELSE {a + DeclaredLength(op)}

\* the local variable the load, store or iinc at address a names
NamedLocal(c, a) ==
    LET op == CodeByte(c, a)
    IN  IF op \in i_iload_0 .. i_iload_3 THEN op - i_iload_0
        ELSE IF op \in i_aload_0 .. i_aload_3 THEN op - i_aload_0
        ELSE IF op \in i_istore_0 .. i_istore_3 THEN op - i_istore_0
        ELSE IF op \in i_astore_0 .. i_astore_3 THEN op - i_astore_0
        ELSE CodeByte(c, a + 1)

\* whether the stack depth declared for the instruction at address a,
\* entered at depth d, stays within the method's bounds
DepthOk(cls, m, a, d) ==
    LET c == m.code
        op == CodeByte(c, a)
    IN  /\ a + DeclaredLength(op) <= c.code_length
        /\ d - DeclaredPops(cls, c, a) >= 0
        /\ d - DeclaredPops(cls, c, a) + DeclaredPushes(cls, c, a) <= c.max_stack
        /\ op = i_invokestatic => Callee(cls, c, a) # 0
        /\ op \in {i_ireturn, i_areturn} => ReturnsValue(m)
        /\ op = i_return => ~ReturnsValue(m)

\* whether the memory the instruction at address a names exists
OperandsOk(cls, m, a) ==
    LET c == m.code
        op == CodeByte(c, a)
    IN  /\ op \in {i_goto} \cup Branches1 \cup Branches2 =>
              \A t \in Successors(c, a) : t >= 0 /\ t < c.code_length
        /\ op \in Loads \cup Stores \cup {i_iinc} =>
              NamedLocal(c, a) < c.max_locals
        /\ op = i_ldc => IntegerConstantAt(cls, CodeByte(c, a + 1))
        /\ op = i_invokestatic =>
              /\ Callee(cls, c, a) # 0
              /\ get_number_of_parameters(cls.methods[Callee(cls, c, a)])
                    <= cls.methods[Callee(cls, c, a)].code.max_locals

\* whether control at address a is still inside the code array
Inside(m, a) == a >= 0 /\ a < m.code.code_length

RECURSIVE Reach(_, _, _, _)
\* the pairs <<address, depth>> on the paths from the pairs in todo
Reach(cls, m, seen, todo) ==
    IF todo = {} THEN seen
    ELSE LET p == CHOOSE q \in todo : TRUE
             next ==
                 IF ~Inside(m, p[1]) \/ ~DepthOk(cls, m, p[1], p[2])
                 THEN {}
                 ELSE {<<t, p[2] - DeclaredPops(cls, m.code, p[1])
                               + DeclaredPushes(cls, m.code, p[1])>> :
                          t \in Successors(m.code, p[1])}
         IN  Reach(cls, m, seen \cup {p}, (todo \cup next) \ (seen \cup {p}))

Paths(cls, m) == Reach(cls, m, {}, {<<0, 0>>})

\* the declared stack depth stays within [0, max_stack] on every path
StackWellFormed(cls) ==
    \A k \in DOMAIN cls.methods :
       \A p \in Paths(cls, cls.methods[k]) :
          IF Inside(cls.methods[k], p[1])
          THEN DepthOk(cls, cls.methods[k], p[1], p[2])
          ELSE ~ReturnsValue(cls.methods[k])

\* and every instruction names memory that exists
WellFormed(cls) ==
    /\ StackWellFormed(cls)
    /\ \A k \in DOMAIN cls.methods :
          \A p \in Paths(cls, cls.methods[k]) :
             /\ Inside(cls.methods[k], p[1])
             /\ OperandsOk(cls, cls.methods[k], p[1])

(***************************************************************************)
(* Class files.  get_class is handed an arbitrary class file; the ones     *)
(* below are assembled from instruction sequences.  In every one of them   *)
(* each instruction that is dispatched has its operand bytes inside the    *)
(* code array.                                                             *)
(***************************************************************************)
\* one-, two- and three-byte instructions
I(op) == <<op>>
IB(op, b) == <<op, b % 256>>
IW(op, w) == <<op, (w % TwoTo16) \div 256, w % 256>>

RECURSIVE Cat(_)
Cat(seqs) == IF seqs = <<>> THEN <<>> ELSE Head(seqs) \o Cat(Tail(seqs))

\* a code attribute whose array holds the byte sequences segs[k].bytes at
\* the addresses segs[k].at and 0x00 elsewhere
CodeAt(length, ms, ml, segs) ==
    LET cells == UNION {{<<k, j>> : j \in {i \in 1 .. Len(segs[k].bytes) :
                                                segs[k].bytes[i] # 0}} :
                           k \in DOMAIN segs}
        AddrOf(c) == segs[c[1]].at + c[2] - 1
    IN  [max_stack |-> ms, max_locals |-> ml, code_length |-> length,
         code |-> [a \in {AddrOf(c) : c \in cells} |->
                      LET c == CHOOSE d \in cells : AddrOf(d) = a
                      IN  segs[c[1]].bytes[c[2]]]]

\* a code attribute holding exactly the given instructions
Code(ms, ml, instrs) ==
    LET bytes == Cat(instrs)
    IN  [max_stack |-> ms, max_locals |-> ml, code_length |-> Len(bytes),
         code |-> [a \in {k - 1 : k \in {j \in 1 .. Len(bytes) : bytes[j] # 0}}
                      |-> bytes[a + 1]]]

Method(name, descriptor, code) ==
    [name |-> name, descriptor |-> descriptor, code |-> code]

Main(code) == Method(MAIN_METHOD, MAIN_DESCRIPTOR, code)

Integer(v) == [tag |-> "Integer", bytes |-> v]
Methodref(name, descriptor) ==
    [tag |-> "Methodref", name |-> name, descriptor |-> descriptor]

ClassFile(pool, methods) == [constant_pool |-> pool, methods |-> methods]

Println == IW(i_invokevirtual, 0)

Segment(at, instrs) == [at |-> at, bytes |-> Cat(instrs)]

\* print(k); return
PrintConst(k) == <<I(i_iconst_0 + k), Println, I(i_return)>>

\* the operand values the class files are built from
Values == {INT_MIN, -7, -1, 0, 1, 46341, INT_MAX}
Counts == {INT_MIN, -1, 0, 1, 2, 31, 32, 33, INT_MAX}

BinaryOps ==
    {i_iadd, i_isub, i_imul, i_idiv, i_irem, i_ishl, i_ishr, i_iushr,
     i_iand, i_ior, i_ixor}

\* main: print(a op b)
ArithClass(op, a, b) ==
    ClassFile(<<Integer(a), Integer(b)>>,
              <<Main(Code(2, 1, <<IB(i_ldc, 1), IB(i_ldc, 2), I(op), Println,
                                  I(i_return)>>))>>)

\* main: print(-a); print(a + a) by dup
UnaryClass(a) ==
    ClassFile(<<Integer(a)>>,
              <<Main(Code(2, 1, <<IB(i_ldc, 1), I(i_ineg), Println,
                                  IB(i_ldc, 1), I(i_dup), I(i_iadd), Println,
                                  I(i_return)>>))>>)

\* main: int x = a; x += (byte) c; print(x), with a value left on the stack
IincClass(a, c) ==
    ClassFile(<<Integer(a)>>,
              <<Main(Code(2, 2, <<IB(i_ldc, 1), I(i_istore_1), I(i_iconst_4),
                                  <<i_iinc, 1, c>>, Println, I(i_iload_1),
                                  Println, I(i_return)>>))>>)

\* main: print(constant), the constant pushed by the given instruction
ConstClass(push) ==
    ClassFile(<<>>, <<Main(Code(1, 1, <<push, Println, I(i_return)>>))>>)

ConstPushes ==
    {I(op) : op \in i_iconst_m1 .. i_iconst_5}
    \cup {IB(i_bipush, b) : b \in {0, 1, 127, 128, 255}}
    \cup {IW(i_sipush, w) : w \in {0, 255, 256, 32767, 32768, 65535}}

\* main: locals[n] = 42; print(locals[n]), by the given store and load
LocalsClass(store, load) ==
    ClassFile(<<>>,
              <<Main(Code(1, 5, <<IB(i_bipush, 42), store, load, Println,
                                  I(i_return)>>))>>)

LocalStores(n) ==
    {IB(i_istore, n), IB(i_astore, n)}
    \cup (IF n <= 3 THEN {I(i_istore_0 + n), I(i_astore_0 + n)} ELSE {})

LocalLoads(n) ==
    {IB(i_iload, n), IB(i_aload, n)}
    \cup (IF n <= 3 THEN {I(i_iload_0 + n), I(i_aload_0 + n)} ELSE {})

\* the ldc instructions that push the operands of a branch
Operands(op) ==
    IF op \in Branches2 THEN <<IB(i_ldc, 1), IB(i_ldc, 2)>>
    ELSE IF op \in Branches1 THEN <<IB(i_ldc, 1)>>
    ELSE <<>>

BranchValues == {INT_MIN, -1, 0, 1, INT_MAX}

\* main: a branch forward over print(1); return to print(2); return
ForwardClass(op, a, b) ==
    ClassFile(<<Integer(a), Integer(b)>>,
              <<Main(Code(2, 1, Operands(op) \o <<IW(op, 8)>> \o PrintConst(1)
                                 \o PrintConst(2)))>>)

\* main: goto L; M: print(2); return; nop; L: a branch back to M, else
\* print(1); return
BackwardClass(op, a, b) ==
    ClassFile(<<Integer(a), Integer(b)>>,
              <<Main(Code(2, 1, <<IW(i_goto, 9)>> \o PrintConst(2) \o <<I(i_nop)>>
                                 \o Operands(op)
                                 \o <<IW(op, -(6 + Len(Cat(Operands(op)))))>>
                                 \o PrintConst(1)))>>)

(***************************************************************************)
(* main with the two extreme offsets: a branch by +32767 from address A,   *)
(* else print(0); at its target the operands again and a branch by -32768  *)
(* from address 32768 + A + 8 back to print(1), else print(2).             *)
(***************************************************************************)
FarClass(op, a, b) ==
    LET P == Len(Cat(Operands(op)))
        T == P + 32767
    IN  ClassFile(<<Integer(a), Integer(b)>>,
                  <<Main(CodeAt(T + 17, 2, 1,
                      <<Segment(0, Operands(op) \o <<IW(op, 32767)>>
                                   \o PrintConst(0) \o PrintConst(1)),
                        Segment(T, Operands(op)),
                        Segment(T + 9, <<IW(op, -32768)>> \o PrintConst(2))>>))>>)

BranchOps == Branches1 \cup Branches2 \cup {i_goto}

\* the operand pairs a branch is tried on
OperandPairs(op, vals) ==
    IF op \in Branches2 THEN vals \X vals
    ELSE IF op \in Branches1 THEN vals \X {0}
    ELSE {<<0, 0>>}

\* the descriptor of a method with p int parameters and return type ret
Descriptor(p, ret) == <<"(">> \o [i \in 1 .. p |-> "I"] \o <<")", ret>>

\* n copies of the instruction
Repeat(n, instr) == [i \in 1 .. n |-> instr]

MaxParams == 3

(***************************************************************************)
(* main pushes extra values and the p arguments and calls f; f prints      *)
(* each of its p + 1 locals and ends with the instruction ending (0: it    *)
(* runs off its code); main prints what f returned and the extra values.   *)
(***************************************************************************)
CallClass(extra, args, ending) ==
    LET p == Len(args)
        ret == IF ending = i_ireturn THEN "I"
               ELSE IF ending = i_areturn THEN "[I" ELSE "V"
        value == ending \in {i_ireturn, i_areturn}
    IN  ClassFile(
            [i \in 1 .. p |-> Integer(args[i])]
                \o <<Methodref("f", Descriptor(p, ret))>>,
            <<Main(Code(extra + (IF p = 0 THEN 1 ELSE p), 1,
                        Repeat(extra, I(i_iconst_5))
                        \o [i \in 1 .. p |-> IB(i_ldc, i)]
                        \o <<IW(i_invokestatic, p + 1)>>
                        \o (IF value THEN <<Println>> ELSE <<>>)
                        \o Repeat(extra, Println)
                        \o <<I(i_return)>>)),
              Method("f", Descriptor(p, ret),
                     Code(2, p + 1,
                          Cat([i \in 1 .. p + 1 |-> <<IB(i_iload, i - 1), Println>>])
                          \o <<I(i_iconst_3)>>
                          \o (IF value THEN <<IB(i_iload, 0)>> ELSE <<>>)
                          \o (IF ending = 0 THEN <<>> ELSE <<I(ending)>>)))>>)

RECURSIVE Tuples(_, _)
\* the sequences of length n over the set vals
Tuples(n, vals) ==
    IF n = 0 THEN {<<>>}
    ELSE {Append(t, v) : t \in Tuples(n - 1, vals), v \in vals}

\* main: print(sum(n)); sum(k) = k = 0 ? 0 : k + sum(k - 1), keeping k on
\* its stack and a copy in a local across the call
RecClass(n) ==
    ClassFile(<<Methodref("sum", Descriptor(1, "I"))>>,
              <<Main(Code(1, 1, <<IB(i_bipush, n), IW(i_invokestatic, 1), Println,
                                  I(i_return)>>)),
                Method("sum", Descriptor(1, "I"),
                       Code(3, 2, <<I(i_iload_0), IW(i_ifne, 5), I(i_iconst_0),
                                    I(i_ireturn), I(i_iload_0), I(i_istore_1),
                                    I(i_iload_0), I(i_iload_0), I(i_iconst_1),
                                    I(i_isub), IW(i_invokestatic, 1), I(i_iadd),
                                    <<i_iinc, 1, 7>>, I(i_ireturn)>>))>>)

MaxArrayLen == 2

\* main: print(new int[n].length)
NewLenClass(n) ==
    ClassFile(<<Integer(n)>>,
              <<Main(Code(1, 1, <<IB(i_ldc, 1), IB(i_newarray, 10),
                                  I(i_arraylength), Println, I(i_return)>>))>>)

\* main: int[] a = new int[n]; a[i] = v; print(a[j]); print(a.length)
StoreLoadClass(n, i, v, j) ==
    ClassFile(<<Integer(n), Integer(i), Integer(v), Integer(j)>>,
              <<Main(Code(3, 2, <<IB(i_ldc, 1), IB(i_newarray, 10), I(i_astore_1),
                                  I(i_aload_1), IB(i_ldc, 2), IB(i_ldc, 3),
                                  I(i_iastore),
                                  I(i_aload_1), IB(i_ldc, 4), I(i_iaload), Println,
                                  I(i_aload_1), I(i_arraylength), Println,
                                  I(i_return)>>))>>)

\* main: a = new int[2]; b = mk(); a[0] = v; print b[0], a[0], a[1],
\* b.length, a, b; mk() returns a new int[1] holding 9
TwoArraysClass(v) ==
    ClassFile(<<Integer(v), Methodref("mk", Descriptor(0, "[I"))>>,
              <<Main(Code(3, 3, <<I(i_iconst_2), IB(i_newarray, 10), I(i_astore_1),
                                  IW(i_invokestatic, 2), I(i_astore_2),
                                  I(i_aload_1), I(i_iconst_0), IB(i_ldc, 1),
                                  I(i_iastore),
                                  I(i_aload_2), I(i_iconst_0), I(i_iaload), Println,
                                  I(i_aload_1), I(i_iconst_0), I(i_iaload), Println,
                                  I(i_aload_1), I(i_iconst_1), I(i_iaload), Println,
                                  I(i_aload_2), I(i_arraylength), Println,
                                  I(i_aload_1), Println, I(i_aload_2), Println,
                                  I(i_return)>>)),
                Method("mk", Descriptor(0, "[I"),
                       Code(4, 1, <<I(i_iconst_1), IB(i_newarray, 10), I(i_dup),
                                    I(i_iconst_0), IB(i_bipush, 9), I(i_iastore),
                                    I(i_areturn)>>))>>)

\* main with the given code and one integer constant
RawClass(ms, ml, instrs) ==
    ClassFile(<<Integer(7)>>, <<Main(Code(ms, ml, instrs))>>)

\* main: push 7, then the filler bytes, then print and return
FillerClass(filler) ==
    RawClass(3, 1, <<IB(i_bipush, 7), filler, Println, I(i_return)>>)

\* nop, getstatic (its index bytes are opcodes), opcodes without a case
Fillers ==
    {I(i_nop), <<i_getstatic, i_iconst_1, i_iconst_2>>, <<1>>, <<87>>, <<255>>,
     <<199, i_iconst_1, i_iconst_2>>}

\* E1, E2: print(3 + 4), print(10 - 3)
E1 == RawClass(2, 1, <<I(i_iconst_3), I(i_iconst_4), I(i_iadd),
                       IW(i_getstatic, 2), Println, I(i_return)>>)
E2 == RawClass(2, 1, <<IB(i_bipush, 10), I(i_iconst_3), I(i_isub), Println,
                       I(i_return)>>)

\* E4: sum = 0; for (i = 1; i <= n; i++) sum += i; print(sum)
E4(n) ==
    RawClass(2, 3, <<I(i_iconst_0), I(i_istore_1), I(i_iconst_1), I(i_istore_2),
                     IW(i_goto, 10),
                     I(i_iload_1), I(i_iload_2), I(i_iadd), I(i_istore_1),
                     <<i_iinc, 2, 1>>,
                     I(i_iload_2), IB(i_bipush, n + 1), IW(i_if_icmplt, -10),
                     I(i_iload_1), Println, I(i_return)>>)

\* E3: print(5 / 0)
E3 == RawClass(2, 1, <<I(i_iconst_5), I(i_iconst_0), I(i_idiv), Println,
                       I(i_return)>>)

\* main: print(1); print(f()); f runs the instructions and returns the top
\* of its stack
CalleeClass(a, b, instrs) ==
    ClassFile(<<Integer(a), Integer(b), Methodref("f", Descriptor(0, "I"))>>,
              <<Main(Code(1, 1, <<I(i_iconst_1), Println, IW(i_invokestatic, 3),
                                  Println, I(i_return)>>)),
                Method("f", Descriptor(0, "I"),
                       Code(2, 1, instrs \o <<I(i_ireturn)>>))>>)

\* f: a op b
OperatorBody(op) == <<IB(i_ldc, 1), IB(i_ldc, 2), I(op)>>

\* f: new int[2]; new int[b]
AllocBody == <<I(i_iconst_2), IB(i_newarray, 10), IB(i_ldc, 2), IB(i_newarray, 10)>>

\* main: print(1); f(); print(3), and f: print(2).  The index bytes of the
\* second and third invokevirtual are 0xffff and two opcodes
PrintOrderClass ==
    ClassFile(<<Methodref("f", Descriptor(0, "V"))>>,
              <<Main(Code(1, 1, <<I(i_iconst_1), Println, IW(i_invokestatic, 1),
                                  I(i_iconst_3),
                                  <<i_invokevirtual, i_iconst_4, i_iconst_5>>,
                                  I(i_return)>>)),
                Method("f", Descriptor(0, "V"),
                       Code(1, 0, <<I(i_iconst_2), <<i_invokevirtual, 255, 255>>,
                                    I(i_return)>>))>>)

\* main: push 5; g(); print, and g: iadd on its empty stack
BelowClass ==
    ClassFile(<<Methodref("g", Descriptor(0, "V"))>>,
              <<Main(Code(2, 1, <<I(i_iconst_5), IW(i_invokestatic, 1), Println,
                                  I(i_return)>>)),
                Method("g", Descriptor(0, "V"),
                       Code(1, 1, <<I(i_iadd), I(i_return)>>))>>)

\* main: L: goto L
LoopClass == RawClass(1, 1, <<IW(i_goto, 0)>>)

\* an empty method body, and a body that runs off its end
EmptyMain == RawClass(0, 1, <<>>)
OpenMain == RawClass(1, 1, <<I(i_iconst_2), Println>>)

(***************************************************************************)
(* Class files that are not well formed.                                   *)
(***************************************************************************)
IllFormedClasses ==
    {\* operands missing
     RawClass(2, 1, <<I(i_iadd), Println, I(i_return)>>),
     RawClass(2, 1, <<I(i_iconst_1), I(i_iadd), Println, I(i_return)>>),
     RawClass(2, 1, <<Println, I(i_return)>>),
     RawClass(2, 1, <<I(i_iconst_1), IW(i_if_icmplt, 3), I(i_return)>>),
     \* more pushed than max_stack
     RawClass(1, 1, <<I(i_iconst_1), I(i_iconst_2), I(i_iadd), Println,
                      I(i_return)>>),
     RawClass(0, 1, <<IB(i_bipush, 9), Println, I(i_return)>>),
     \* branch targets outside the code array
     RawClass(1, 1, <<IW(i_goto, 100), I(i_iconst_1), Println, I(i_return)>>),
     RawClass(1, 1, <<I(i_nop), IW(i_goto, -5), I(i_iconst_1), Println,
                      I(i_return)>>),
     RawClass(1, 1, <<I(i_iconst_0), IW(i_ifeq, 9), I(i_iconst_1), Println,
                      I(i_return)>>),
     RawClass(1, 1, <<I(i_iconst_0), IW(i_ifeq, -2), I(i_iconst_1), Println,
                      I(i_return)>>),
     \* main returns a value
     RawClass(1, 1, <<I(i_iconst_1), I(i_ireturn)>>),
     RawClass(1, 1, <<I(i_iconst_1), I(i_areturn)>>),
     \* a local, a constant, a reference that does not exist
     RawClass(1, 1, <<IB(i_iload, 7), Println, I(i_return)>>),
     RawClass(1, 1, <<I(i_iconst_1), I(i_istore_3), I(i_return)>>),
     RawClass(1, 1, <<IB(i_ldc, 9), Println, I(i_return)>>),
     RawClass(1, 1, <<I(i_iconst_5), I(i_arraylength), Println, I(i_return)>>),
     RawClass(1, 1, <<IW(i_invokestatic, 1), I(i_return)>>),
     \* a callee whose return contradicts its descriptor
     ClassFile(<<Methodref("g", Descriptor(0, "I"))>>,
               <<Main(Code(1, 1, <<IW(i_invokestatic, 1), Println, I(i_return)>>)),
                 Method("g", Descriptor(0, "I"), Code(1, 1, <<I(i_return)>>))>>),
     ClassFile(<<Methodref("g", Descriptor(0, "V"))>>,
               <<Main(Code(1, 1, <<I(i_iconst_4), IW(i_invokestatic, 1), Println,
                                   I(i_return)>>)),
                 Method("g", Descriptor(0, "V"),
                        Code(1, 1, <<I(i_iconst_1), I(i_ireturn)>>))>>),
     \* a callee that stores below its stack
     BelowClass}

ClassFiles ==
    {ArithClass(op, a, b) : op \in BinaryOps, a \in Values, b \in Counts}
    \cup {UnaryClass(a) : a \in Values}
    \cup {IincClass(a, c) : a \in {INT_MIN, -1, 0, INT_MAX}, c \in {0, 1, 127, 128, 255}}
    \cup {ConstClass(push) : push \in ConstPushes}
    \cup UNION {{LocalsClass(st, ld) : st \in LocalStores(n), ld \in LocalLoads(n)} :
                  n \in 0 .. 4}
    \cup UNION {{ForwardClass(op, v[1], v[2]) : v \in OperandPairs(op, BranchValues)} :
                  op \in BranchOps}
    \cup UNION {{BackwardClass(op, v[1], v[2]) : v \in OperandPairs(op, BranchValues)} :
                  op \in BranchOps}
    \cup UNION {{FarClass(op, v[1], v[2]) : v \in OperandPairs(op, {-1, 0, 1})} :
                  op \in BranchOps}
    \cup UNION {{CallClass(extra, args, ending) :
                    extra \in 0 .. 1, args \in Tuples(p, {-1, 7}),
                    ending \in {i_ireturn, i_areturn, i_return, 0}} :
                  p \in 0 .. MaxParams}
    \cup {RecClass(n) : n \in 0 .. MaxFrames - 1}
    \cup {NewLenClass(n) : n \in {INT_MIN, -1} \cup (0 .. MaxArrayLen)}
    \cup UNION {{StoreLoadClass(n, i, v, j) :
                    i \in -1 .. n, v \in {INT_MIN, -1, 7}, j \in 0 .. n - 1} :
                  n \in 1 .. MaxArrayLen}
    \cup {TwoArraysClass(v) : v \in {-1, 7}}
    \cup {FillerClass(filler) : filler \in Fillers}
    \cup {CalleeClass(a, b, OperatorBody(op)) :
               op \in {i_idiv, i_irem}, a \in {INT_MIN, 0, 7}, b \in {0, 1}}
    \cup {CalleeClass(a, b, OperatorBody(op)) :
               op \in {i_ishl, i_ishr, i_iushr}, a \in {7}, b \in {INT_MIN, -1, 1}}
    \cup {CalleeClass(0, b, AllocBody) : b \in {INT_MIN, -1, 1}}
    \cup {E1, E2, E3, E4(10), EmptyMain, OpenMain, PrintOrderClass, LoopClass}
    \cup IllFormedClasses

(***************************************************************************)
(* main (lines 412-427): the class is parsed, the heap is empty, and       *)
(* execute starts on main with its locals zeroed.                          *)
(***************************************************************************)
Init ==
    /\ class \in ClassFiles
    /\ LET main_method == find_method(MAIN_METHOD, MAIN_DESCRIPTOR, class)
       IN  frames = <<[method |-> main_method, pc |-> 0,
                       stack |-> Calloc(class.methods[main_method].code.max_stack),
                       idx |-> 0,
                       locals |-> Calloc(class.methods[main_method].code.max_locals)]>>
    /\ heap = <<>>
    /\ out = <<>>
    /\ unwritten = <<>>
    /\ line_buffered \in BOOLEAN
    /\ status = "Running"

Next ==
    \/ case_default
    \/ case_i_bipush
    \/ case_i_iadd
    \/ case_i_return
    \/ case_i_getstatic
    \/ case_i_invokevirtual
    \/ case_i_iconst
    \/ case_i_sipush
    \/ case_i_isub
    \/ case_i_imul
    \/ case_i_idiv
    \/ case_i_irem
    \/ case_i_ineg
    \/ case_i_ishl
    \/ case_i_ishr
    \/ case_i_iushr
    \/ case_i_iand
    \/ case_i_ior
    \/ case_i_ixor
    \/ case_i_iload
    \/ case_i_istore
    \/ case_i_iinc
    \/ case_i_iload_n
    \/ case_i_istore_n
    \/ case_i_ldc
    \/ case_i_ifeq
    \/ case_i_ifne
    \/ case_i_iflt
    \/ case_i_ifge
    \/ case_i_ifgt
    \/ case_i_ifle
    \/ case_i_if_icmpeq
    \/ case_i_if_icmpne
    \/ case_i_if_icmplt
    \/ case_i_if_icmpge
    \/ case_i_if_icmpgt
    \/ case_i_if_icmple
    \/ case_i_goto
    \/ case_i_ireturn
    \/ case_i_invokestatic
    \/ case_i_nop
    \/ case_i_dup
    \/ case_i_newarray
    \/ case_i_arraylength
    \/ case_i_areturn
    \/ case_i_iastore
    \/ case_i_iaload
    \/ case_i_aload
    \/ case_i_astore
    \/ case_i_aload_n
    \/ case_i_astore_n
    \/ execute_end
    \/ Trap

Spec == Init /\ [][Next]_vars

(***************************************************************************)
(* execute is a loop in a single thread that nothing suspends: as long as  *)
(* an instruction can change the state, one is executed.                   *)
(***************************************************************************)
FairSpec == Spec /\ WF_vars(Next)

(***************************************************************************)
(* Properties.  A step of the interpreter is seen from its two ends: the   *)
(* unprimed names are the running activation before the instruction, the   *)
(* primed frames the activations after it.                                 *)
(***************************************************************************)
\* an instruction starts in this state
Executing == status = "Running" /\ Top >= 1

\* the instruction ran to its end without a fault, a trap or the exit
Completed == Executing /\ status' = "Running"

\* the step is the start of a call, the return to a caller, or neither
StartsCallee == Completed /\ Len(frames') = Top + 1
ReturnsToCaller == Completed /\ Top >= 2 /\ Len(frames') = Top - 1
InPlace == Completed /\ Len(frames') = Top

\* the running activation after an instruction that stays in it
After == frames'[Top]

\* whether the depth of activation f is within its method's max_stack
DepthInRange(f) ==
    f.idx >= 0 /\ f.idx <= class.methods[f.method].code.max_stack

\* the stack cells idx - 1 .. idx - n exist
Has(n) == idx - n >= 0 /\ idx <= max_stack

(***************************************************************************)
(* C1.  In a class whose methods are stack-well-formed, execution of each  *)
(* activation starts at pc = 0 with depth 0, after every instruction the   *)
(* depth idx of every activation lies in 0 .. max_stack, and the depth     *)
(* after an instruction is the depth before it minus the pops plus the     *)
(* pushes declared for its opcode.  For invokestatic the pops are applied  *)
(* when the callee starts on an empty stack and the push when it returns.  *)
(***************************************************************************)
C1_Step ==
    \/ ~Completed
    \/ ~StackWellFormed(class)
    \/ /\ \A k \in DOMAIN frames' : DepthInRange(frames'[k])
       /\ StartsCallee =>
             /\ After.idx = idx - DeclaredPops(class, method.code, pc)
             /\ frames'[Top + 1].idx = 0
             /\ frames'[Top + 1].pc = 0
       /\ ReturnsToCaller =>
             frames'[Top - 1].idx =
                 frames[Top - 1].idx
                 + DeclaredPushes(class, class.methods[frames[Top - 1].method].code,
                                  frames[Top - 1].pc)
       /\ InPlace =>
             After.idx = idx - DeclaredPops(class, method.code, pc)
                             + DeclaredPushes(class, method.code, pc)

C1_StackDepth ==
    /\ Top = 1 /\ pc = 0 /\ idx = 0
    /\ [][C1_Step]_vars

\* a callee of a stack-well-formed class with its stack full
C1_Witness ==
    /\ StackWellFormed(class)
    /\ status = "Running"
    /\ Top >= 2
    /\ pc > 0
    /\ idx = max_stack
    /\ idx >= 3

(***************************************************************************)
(* C2.  In a stack-well-formed class, an invokestatic of a method with p   *)
(* parameters executed at depth d leaves the caller at depth d - p while   *)
(* the callee runs, with pc still at the instruction.  When the callee     *)
(* ends with ireturn or areturn the caller's depth becomes d - p + 1 and   *)
(* the returned value is the new top of its stack; when it ends with       *)
(* return or runs off its code the depth stays d - p.  Either way the      *)
(* caller's pc advances by exactly 3 and the rest of its stack is kept.    *)
(***************************************************************************)
C2_Step ==
    \/ ~StackWellFormed(class)
    \/ /\ StartsCallee =>
             LET p == get_number_of_parameters(
                          class.methods[frames'[Top + 1].method])
             IN  /\ bytecode(pc) = i_invokestatic
                 /\ After.idx = idx - p
                 /\ After.pc = pc
                 /\ After.stack = stack
       /\ ReturnsToCaller =>
             LET caller == frames[Top - 1]
                 resumed == frames'[Top - 1]
                 value == InLoop /\ bytecode(pc) \in {i_ireturn, i_areturn}
             IN  /\ resumed.pc = caller.pc + 3
                 /\ resumed.idx = caller.idx + (IF value THEN 1 ELSE 0)
                 /\ value => resumed.stack[resumed.idx - 1] = stack[idx - 1]
                 /\ \A i \in 0 .. caller.idx - 1 :
                       resumed.stack[i] = caller.stack[i]
                 /\ resumed.locals = caller.locals

C2_InvokeStatic == [][C2_Step]_vars

\* main pushed 5, -1 and 7 (d = 3), called f(-1, 7) (p = 2), f returned its
\* first parameter: depth 2, -1 on top of the 5, pc behind the invokestatic
C2_Witness ==
    /\ class = CallClass(1, <<-1, 7>>, i_ireturn)
    /\ StackWellFormed(class)
    /\ status = "Running"
    /\ Top = 1
    /\ pc = 8
    /\ idx = 2
    /\ stack[1] = -1
    /\ stack[0] = 5

(***************************************************************************)
(* C3.  In a well-formed class, the activation an invokestatic starts has  *)
(* a locals array of its method's max_locals slots in which slot i holds   *)
(* the i-th argument (argument 0 the deepest of the p popped values) and   *)
(* every slot from p on holds 0; it starts at pc = 0 on an empty stack of  *)
(* max_stack slots.                                                        *)
(***************************************************************************)
C3_Step ==
    \/ ~WellFormed(class)
    \/ StartsCallee =>
          LET callee == frames'[Top + 1]
              m == class.methods[callee.method]
              p == get_number_of_parameters(m)
          IN  /\ callee.method = find_method_from_index(Operand16, class)
              /\ DOMAIN callee.locals = 0 .. m.code.max_locals - 1
              /\ \A i \in 0 .. p - 1 : callee.locals[i] = stack[idx - p + i]
              /\ \A j \in p .. m.code.max_locals - 1 : callee.locals[j] = 0
              /\ callee.pc = 0
              /\ callee.idx = 0
              /\ DOMAIN callee.stack = 0 .. m.code.max_stack - 1

RecordedLength(h, r) == h[r][0]

C4_Step ==
    \/ ~Completed
    \/ ~StackWellFormed(class)
    \/ /\ Dispatch(i_newarray) =>
             LET n == stack[idx - 1]
                 ref == After.stack[idx - 1]
             IN  /\ n >= 0
                 /\ ref = Len(heap)
                 /\ Len(heap') = Len(heap) + 1
                 /\ RecordedLength(heap', ref + 1) = n
                 /\ After.idx = idx
       /\ Dispatch(i_arraylength) /\ Issued(stack[idx - 1]) =>
             /\ After.stack[idx - 1] = RecordedLength(heap, stack[idx - 1] + 1)
             /\ After.idx = idx
       /\ \A r \in DOMAIN heap :
             \/ /\ r \in DOMAIN heap'
                /\ RecordedLength(heap', r) = RecordedLength(heap, r)
             \/ /\ Dispatch(i_iastore)
                /\ stack[idx - 3] = r - 1
                /\ stack[idx - 2] \notin 0 .. RecordedLength(heap, r) - 1

C4_ArrayLength ==
    /\ [](\A n \in 0 .. MaxArrayLen :
             class = NewLenClass(n) /\ Top = 1 /\ pc = 5 =>
                 idx = 1 /\ stack[0] = n)
    /\ [][C4_Step]_vars

\* new int[2], a[1] = 7, print(a[1]), print(a.length) has printed 7 and 2
C4_Witness ==
    /\ class = StoreLoadClass(2, 1, 7, 1)
    /\ StackWellFormed(class)
    /\ out = <<FormatInt(7), FormatInt(2)>>

(***************************************************************************)
(* C5.  In a stack-well-formed class, iastore of v at an index i within    *)
(* the array's length pops three values and makes element i of the array   *)
(* v; iaload at an index within the length replaces reference and index    *)
(* by element i (a net pop of one); an element changes only by an iastore  *)
(* to the same array and index; and every element of a new array is 0.     *)
(* Hence an iaload returns the value last stored at its index, or 0 when   *)
(* nothing was stored there.                                               *)
(***************************************************************************)
\* element i of the array at position r of the heap
Element(h, r, i) == h[r][i + 1]

\* the indices of the elements allocated for the array at position r
Indices(h, r) == {k - 1 : k \in DOMAIN h[r] \ {0}}

C5_Step ==
    \/ ~Completed
    \/ ~StackWellFormed(class)
    \/ /\ Dispatch(i_iastore) /\ Issued(stack[idx - 3])
             /\ stack[idx - 2] \in Indices(heap, stack[idx - 3] + 1) =>
             /\ Element(heap', stack[idx - 3] + 1, stack[idx - 2]) = stack[idx - 1]
             /\ After.idx = idx - 3
       /\ Dispatch(i_iaload) /\ Issued(stack[idx - 2])
             /\ stack[idx - 1] \in Indices(heap, stack[idx - 2] + 1) =>
             /\ After.stack[idx - 2] =
                    Element(heap, stack[idx - 2] + 1, stack[idx - 1])
             /\ After.idx = idx - 1
       /\ \A r \in DOMAIN heap : \A i \in Indices(heap, r) :
             \/ /\ r \in DOMAIN heap'
                /\ i \in Indices(heap', r)
                /\ Element(heap', r, i) = Element(heap, r, i)
             \/ /\ Dispatch(i_iastore)
                /\ stack[idx - 3] = r - 1
                /\ stack[idx - 2] = i
       /\ Dispatch(i_newarray) =>
             \A i \in Indices(heap', Len(heap')) : Element(heap', Len(heap'), i) = 0

C5_StoreLoad == [][C5_Step]_vars

\* new int[2], a[1] = 7: the iaload at index 1 has left 7 on the stack
C5_Witness ==
    /\ class = StoreLoadClass(2, 1, 7, 1)
    /\ StackWellFormed(class)
    /\ status = "Running"
    /\ pc = 15
    /\ idx = 1
    /\ stack[0] = 7

(***************************************************************************)
(* Two's-complement results, stated from the arithmetic rather than from   *)
(* the machine operations above.                                           *)
(***************************************************************************)
\* the value in [INT_MIN, INT_MAX] that differs from a + b by a multiple of 2^32
WrapAdd(a, b) ==
    IF b >= 0 /\ a > INT_MAX - b THEN (a + INT_MIN) + (b + INT_MIN)
    ELSE IF b < 0 /\ a < INT_MIN - b THEN ((a + INT_MAX) + 1) + ((b + INT_MAX) + 1)
    ELSE a + b

\* likewise for -a
WrapNeg(a) == IF a = INT_MIN THEN INT_MIN ELSE -a

\* likewise for a - b
WrapSub(a, b) ==
    IF b = INT_MIN THEN (IF a < 0 THEN (a + INT_MAX) + 1 ELSE a + INT_MIN)
    ELSE WrapAdd(a, -b)

\* likewise for a * b: the exact product when both factors are below
\* 2^15.5 in magnitude, the low 32 bits of the product otherwise
WrapMul(a, b) ==
    IF a > -46341 /\ a < 46341 /\ b > -46341 /\ b < 46341 THEN a * b
    ELSE Mul32(a, b)

\* the quotient truncated toward zero and the remainder with the sign of
\* the dividend, b # 0; INT_MIN / -1 wraps to INT_MIN, remainder 0
TruncDiv(a, b) ==
    IF a = INT_MIN /\ b = -1 THEN INT_MIN
    ELSE IF b = INT_MIN THEN (IF a = INT_MIN THEN 1 ELSE 0)
    ELSE IF b = 1 THEN a
    ELSE IF a = INT_MIN
         THEN (IF b > 0 THEN -((INT_MAX \div b) + (IF INT_MAX % b = b - 1 THEN 1 ELSE 0))
               ELSE (INT_MAX \div (-b)) + (IF INT_MAX % (-b) = (-b) - 1 THEN 1 ELSE 0))
    ELSE LET q == (IF a < 0 THEN -a ELSE a) \div (IF b < 0 THEN -b ELSE b)
         IN  IF (a < 0) = (b < 0) THEN q ELSE -q

TruncRem(a, b) ==
    IF a = INT_MIN /\ b = -1 THEN 0
    ELSE WrapSub(a, WrapMul(TruncDiv(a, b), b))

\* the value the operator op is to leave for the operands a (below) and b (top)
Expected(op, a, b) ==
    IF op = i_iadd THEN WrapAdd(a, b)
    ELSE IF op = i_isub THEN WrapSub(a, b)
    ELSE IF op = i_imul THEN WrapMul(a, b)
    ELSE IF op = i_idiv THEN TruncDiv(a, b)
    ELSE TruncRem(a, b)

ArithmeticOps == {i_iadd, i_isub, i_imul, i_idiv, i_irem}

\* the instruction is one of the arithmetic operators on operands for which
\* the result is defined (a divisor other than 0)
Arithmetic ==
    /\ InLoop
    /\ bytecode(pc) \in ArithmeticOps
    /\ bytecode(pc) \in {i_idiv, i_irem} => stack[idx - 1] # 0

\* the instruction divides INT_MIN by -1
DividesMinByMinusOne ==
    /\ InLoop
    /\ bytecode(pc) \in {i_idiv, i_irem}
    /\ stack[idx - 2] = INT_MIN
    /\ stack[idx - 1] = -1

\* the arithmetic instructions other than a division leave what is expected
C6_Rest ==
    /\ Arithmetic =>
          /\ status' = "Running"
          /\ After.stack[idx - 2] = Expected(bytecode(pc), stack[idx - 2], stack[idx - 1])
          /\ After.idx = idx - 1
          /\ After.pc = pc + 1
    /\ Dispatch(i_ineg) =>
          /\ status' = "Running"
          /\ After.stack[idx - 1] = WrapNeg(stack[idx - 1])
          /\ After.idx = idx
    /\ Dispatch(i_iinc) =>
          LET n == bytecode(pc + 1)
              c == bytecode(pc + 2)
          IN  /\ status' = "Running"
              /\ After.locals[n] = WrapAdd(locals[n], IF c >= 128 THEN c - 256 ELSE c)
              /\ After.stack = stack
              /\ After.idx = idx
              /\ After.pc = pc + 3

(***************************************************************************)
(* C6.  In a well-formed class, iadd, isub, imul and ineg leave the        *)
(* two's-complement 32-bit result (isub second-from-top minus top, ineg    *)
(* of INT_MIN is INT_MIN); idiv and irem with a divisor other than 0       *)
(* leave the quotient truncated toward zero and the remainder, with        *)
(* INT_MIN / -1 wrapping to INT_MIN and INT_MIN % -1 giving 0; iinc adds   *)
(* its sign-extended 8-bit constant to the local with wrap-around and      *)
(* leaves the operand stack alone.                                         *)
(***************************************************************************)
C6_Step ==
    \/ ~Executing
    \/ ~WellFormed(class)
    \/ C6_Rest

C6_Arithmetic == [][C6_Step]_vars

\* C6 with the division of INT_MIN by -1 left out: what the code does keep
C6_Defined == [][DividesMinByMinusOne \/ C6_Step]_vars

\* the division of INT_MIN by -1 has stopped the program with a trap
C6_Witness ==
    /\ class = ArithClass(i_idiv, INT_MIN, -1)
    /\ WellFormed(class)
    /\ status = "Crash"
    /\ out = <<>>

(***************************************************************************)
(* The branch instructions as the instruction set defines them.            *)
(***************************************************************************)
\* the signed 16-bit value of the two offset bytes
Offset16(b1, b2) == ((b1 * 256 + b2 + 32768) % 65536) - 32768

\* the condition of the branch op on v (top) or on a (below) and b (top)
Holds(op) ==
    LET v == stack[idx - 1]
        a == stack[idx - 2]
        b == stack[idx - 1]
    IN  IF op = i_ifeq THEN v = 0
        ELSE IF op = i_ifne THEN v # 0
        ELSE IF op = i_iflt THEN v < 0
        ELSE IF op = i_ifge THEN v >= 0
        ELSE IF op = i_ifgt THEN v > 0
        ELSE IF op = i_ifle THEN v <= 0
        ELSE IF op = i_if_icmpeq THEN a = b
        ELSE IF op = i_if_icmpne THEN a # b
        ELSE IF op = i_if_icmplt THEN a < b
        ELSE IF op = i_if_icmpge THEN a >= b
        ELSE IF op = i_if_icmpgt THEN a > b
        ELSE IF op = i_if_icmple THEN a <= b
        ELSE TRUE

\* the instruction is a branch
Branching == InLoop /\ bytecode(pc) \in BranchOps

(***************************************************************************)
(* C7.  In a well-formed class (every branch target inside the code), a    *)
(* goto and a conditional branch whose condition holds set pc to the       *)
(* address of the branch opcode plus the signed 16-bit offset read         *)
(* big-endian from the two bytes after it, offsets of +32767 and -32768    *)
(* included; a conditional branch whose condition does not hold sets pc    *)
(* to the opcode's address plus 3.                                         *)
(***************************************************************************)
C7_Step ==
    \/ ~Completed
    \/ ~WellFormed(class)
    \/ Branching =>
          After.pc = IF Holds(bytecode(pc))
                     THEN pc + Offset16(bytecode(pc + 1), bytecode(pc + 2))
                     ELSE pc + 3

C7_BranchTarget == [][C7_Step]_vars

\* -1 < 0 branched by +32767 and from there by -32768: control is at the
\* address only the second branch leads to
C7_Witness ==
    /\ class = FarClass(i_if_icmplt, -1, 0)
    /\ WellFormed(class)
    /\ status = "Running"
    /\ Top = 1
    /\ pc = 12
    /\ idx = 0

(***************************************************************************)
(* C8.  In a stack-well-formed class, ifeq, ifne, iflt, ifge, ifgt and     *)
(* ifle pop one value v and branch exactly when v = 0, v # 0, v < 0,       *)
(* v >= 0, v > 0, v <= 0; the if_icmp instructions pop b (top) and a and   *)
(* branch exactly when a = b, a # b, a < b, a >= b, a > b, a <= b; the     *)
(* pops happen whether or not the branch is taken; goto always branches    *)
(* and changes neither the stack nor the locals.                           *)
(***************************************************************************)
C8_Step ==
    \/ ~Completed
    \/ ~StackWellFormed(class)
    \/ Branching =>
          LET op == bytecode(pc)
              pops == IF op \in Branches2 THEN 2 ELSE IF op \in Branches1 THEN 1 ELSE 0
              branched == After.pc # pc + 3
          IN  /\ After.idx = idx - pops
              /\ After.stack = stack
              /\ After.locals = locals
              /\ Len(frames') = Top
              /\ heap' = heap
              /\ out' = out
              /\ Offset16(bytecode(pc + 1), bytecode(pc + 2)) # 3 =>
                    (branched <=> Holds(op))

C8_BranchCondition == [][C8_Step]_vars

\* if_icmplt on a = -1, b = 0 has branched over print(1)
C8_Witness ==
    /\ class = ForwardClass(i_if_icmplt, -1, 0)
    /\ StackWellFormed(class)
    /\ status = "Running"
    /\ pc = 12
    /\ idx = 0

(***************************************************************************)
(* C9.  idiv and irem with 0 on top of the stack stop the program with a   *)
(* fault in whatever activation they run: the stack, the locals, the heap  *)
(* and the output are as before the instruction, and after a fault no      *)
(* instruction runs and nothing more is written.                           *)
(***************************************************************************)
\* the instruction divides by the 0 on top of the stack
DividesByZero ==
    /\ InLoop
    /\ bytecode(pc) \in {i_idiv, i_irem}
    /\ idx - 1 \in DOMAIN stack
    /\ stack[idx - 1] = 0

\* the step is a fault that changes nothing else
FaultsUnchanged ==
    /\ status' = "Fault"
    /\ frames' = frames
    /\ heap' = heap
    /\ out' = out

C9_Step ==
    /\ DividesByZero => FaultsUnchanged
    /\ status # "Fault"

C9_DivisionByZero ==
    /\ [](class = E3 => out = <<>>)
    /\ [][C9_Step]_vars

\* f, called by main after print(1), has faulted on 7 % 0
C9_Witness ==
    /\ class = CalleeClass(7, 0, OperatorBody(i_irem))
    /\ status = "Fault"
    /\ Top = 2
    /\ bytecode(pc) = i_irem
    /\ out = <<FormatInt(1)>>

(***************************************************************************)
(* C10.  ishl, ishr and iushr with a negative shift count on top of the    *)
(* stack, and newarray with a negative size on top, stop the program with  *)
(* a fault before anything changes: the stack is as before, and for        *)
(* newarray the heap has no new entry, so no reference was issued.         *)
(***************************************************************************)
\* the instruction has a negative count or size on top of the stack
NegativeOperand ==
    /\ InLoop
    /\ bytecode(pc) \in {i_ishl, i_ishr, i_iushr, i_newarray}
    /\ idx - 1 \in DOMAIN stack
    /\ stack[idx - 1] < 0

C10_Step == NegativeOperand => FaultsUnchanged

C10_NegativeOperand == [][C10_Step]_vars

\* f has faulted on new int[-1] after adding one array to the heap
C10_Witness ==
    /\ class = CalleeClass(0, -1, AllocBody)
    /\ status = "Fault"
    /\ Top = 2
    /\ bytecode(pc) = i_newarray
    /\ Len(heap) = 1

(***************************************************************************)
(* C11.  An instruction that needs more operands than the stack holds, or  *)
(* that would push beyond max_stack, stops the activation: no activation   *)
(* goes on running with a depth outside 0 .. max_stack.                    *)
(***************************************************************************)
\* the instruction at pc pops more values than the stack holds
Underflows == InLoop /\ DeclaredPops(class, method.code, pc) > idx

\* the instruction at pc leaves more values than max_stack
Overflows ==
    /\ InLoop
    /\ idx - DeclaredPops(class, method.code, pc)
           + DeclaredPushes(class, method.code, pc) > max_stack

C11_Step == (Underflows \/ Overflows) => status' \in {"Fault", "Crash"}

C11_StackBounds ==
    /\ [][C11_Step]_vars
    /\ [](status = "Running" => \A k \in 1 .. Top : DepthInRange(frames[k]))

\* main goes on after an iadd on an empty stack, at depth -1
C11_Witness ==
    /\ class = RawClass(2, 1, <<I(i_iadd), Println, I(i_return)>>)
    /\ status = "Running"
    /\ pc = 1
    /\ idx = -1

(***************************************************************************)
(* C12.  A goto, or a conditional branch whose condition holds, whose      *)
(* target pc + offset is negative or not below code_length stops the       *)
(* program with a fault: the activation neither goes on nor returns.       *)
(***************************************************************************)
\* the branch at pc is taken and its target lies outside the code array
TakenOutside ==
    LET op == bytecode(pc)
        target == pc + Offset16(bytecode(pc + 1), bytecode(pc + 2))
        pops == IF op \in Branches2 THEN 2 ELSE IF op \in Branches1 THEN 1 ELSE 0
    IN  /\ Branching
        /\ Has(pops)
        /\ Holds(op)
        /\ target < 0 \/ target >= code_length

C12_Step == TakenOutside => status' = "Fault"

C12_BranchOutside == [][C12_Step]_vars

\* main has left by goto +100 from address 0 of its 8 bytes and the
\* program has exited normally, nothing printed
C12_Witness ==
    /\ class = RawClass(1, 1, <<IW(i_goto, 100), I(i_iconst_1), Println,
                                I(i_return)>>)
    /\ status = "Exited"
    /\ out = <<>>

(***************************************************************************)
(* C13.  An activation ends in three ways only.  return ends it without a  *)
(* value; ireturn and areturn end it with the value on top of its stack;   *)
(* and it ends without a value when pc has reached code_length by          *)
(* advancing over the last instruction, which for an empty code array is   *)
(* before any instruction.  Every other instruction that completes leaves  *)
(* the activation running.                                                 *)
(***************************************************************************)
\* the running activation ends without a value: main exits, a callee
\* leaves its caller's depth as it was
ReturnedNone ==
    IF Top = 1 THEN status' = "Exited" /\ frames' = <<>>
    ELSE /\ ReturnsToCaller
         /\ frames'[Top - 1].idx = frames[Top - 1].idx
         /\ frames'[Top - 1].stack = frames[Top - 1].stack

\* the running activation ends with the value v: main's result has a
\* value, a callee's caller holds v on top of its stack
ReturnedSome(v) ==
    IF Top = 1 THEN status' = "Fault" /\ frames' = <<>>
    ELSE /\ ReturnsToCaller
         /\ frames'[Top - 1].idx = frames[Top - 1].idx + 1
         /\ frames[Top - 1].idx \in DOMAIN frames[Top - 1].stack =>
               frames'[Top - 1].stack[frames[Top - 1].idx] = v

\* pc of the activation that runs after the step is outside the code only
\* at code_length, reached over the instruction just executed
AdvancesSequentially ==
    /\ InPlace /\ InLoop /\ ~(After.pc >= 0 /\ After.pc < code_length) =>
          /\ After.pc = code_length
          /\ After.pc = pc + DeclaredLength(bytecode(pc))
    /\ ReturnsToCaller => frames'[Top - 1].pc = frames[Top - 1].pc + 3

C13_Rest ==
    /\ Dispatch(i_return) => ReturnedNone
    /\ (Dispatch(i_ireturn) \/ Dispatch(i_areturn)) /\ Has(1) =>
          ReturnedSome(stack[idx - 1])
    /\ ~InLoop => ReturnedNone /\ out' \o unwritten' = out \o unwritten
    /\ InLoop /\ bytecode(pc) \notin Returns /\ Completed =>
          Len(frames') >= Top
    /\ AdvancesSequentially

C13_Step == Executing => C13_Rest

C13_FrameExit == [][C13_Step]_vars

\* the same with the taken branches to a target outside the code excepted
C13_BranchesInside == [][Executing /\ ~TakenOutside => C13_Rest]_vars

\* main is at pc = -4 after goto -5 from address 1: outside its code
\* without having advanced to code_length
C13_Witness ==
    /\ class = RawClass(1, 1, <<I(i_nop), IW(i_goto, -5), I(i_iconst_1), Println,
                                I(i_return)>>)
    /\ status = "Running"
    /\ pc = -4

(***************************************************************************)
(* C14.  main starts with every one of its max_locals locals 0, local 0    *)
(* included.  The program exits normally only when main ends without a     *)
(* value (return, or running off the end of its code); when main ends by   *)
(* ireturn or areturn the program stops with a fault; a value returned by  *)
(* any other activation is handed to its caller and is never a fault.      *)
(***************************************************************************)
\* the activation ends by ireturn or areturn
ReturnsAValue == Dispatch(i_ireturn) \/ Dispatch(i_areturn)

C14_Start ==
    /\ Top = 1
    /\ method.name = MAIN_METHOD
    /\ DOMAIN locals = 0 .. max_locals - 1
    /\ \A n \in DOMAIN locals : locals[n] = 0

C14_Step ==
    /\ status' = "Exited" =>
          /\ Top = 1
          /\ method.name = MAIN_METHOD
          /\ Dispatch(i_return) \/ ~InLoop
    /\ Executing /\ ReturnsAValue /\ Top = 1 =>
          \/ status' = "Fault"
          \/ ~Has(1) /\ status' = "Crash"
    /\ Executing /\ ReturnsAValue /\ Top >= 2 /\ Has(1) =>
          /\ status' = "Running"
          /\ ReturnedSome(stack[idx - 1])

C14_MainReturnsVoid == C14_Start /\ [][C14_Step]_vars

\* main has ended by ireturn with the value 1: the assert on its result
\* has failed
C14_Witness ==
    /\ class = RawClass(1, 1, <<I(i_iconst_1), I(i_ireturn)>>)
    /\ status = "Fault"
    /\ frames = <<>>

(***************************************************************************)
(* C15.  The output of a run is the sequence of the values the             *)
(* invokevirtual instructions popped, in the order they were dispatched,   *)
(* one decimal line each.  An invokevirtual pops one value, appends its    *)
(* line and advances pc by 3 whatever its index bytes are; no other        *)
(* instruction appends a line; the lines of a callee therefore lie between *)
(* those its caller printed before and after the call.                     *)
(***************************************************************************)
\* the lines handed to printf so far
Printed == out \o unwritten

C15_Step ==
    /\ Dispatch(i_invokevirtual) /\ Has(1) =>
          /\ InPlace
          /\ out' \o unwritten' = Append(Printed, FormatInt(stack[idx - 1]))
          /\ After.idx = idx - 1
          /\ After.pc = pc + 3
          /\ After.stack = stack
          /\ After.locals = locals
          /\ heap' = heap
    /\ ~Dispatch(i_invokevirtual) => out' \o unwritten' = Printed

\* when the run is over, every line printed is in the output
C15_Output ==
    /\ [][C15_Step]_vars
    /\ [](status # "Running" => out = Printed)

\* the same for the runs that reach their normal end, and for every run
\* whose stdout is line buffered
C15_Printed ==
    /\ [][C15_Step]_vars
    /\ [](status = "Exited" \/ line_buffered => out = Printed)

\* print(1) in main, then 7 / 0 in f: the program has aborted and the
\* line 1 never left the buffer of stdout
C15_Witness ==
    /\ class = CalleeClass(7, 0, OperatorBody(i_idiv))
    /\ ~line_buffered
    /\ status = "Fault"
    /\ out = <<>>
    /\ unwritten = <<FormatInt(1)>>

\* print(1); f(); print(3) with f printing 2 has run to its end
C15_InOrder ==
    /\ class = PrintOrderClass
    /\ status = "Exited"
    /\ out = <<FormatInt(1), FormatInt(2), FormatInt(3)>>

(***************************************************************************)
(* C16.  The heap is one table for all activations and it only grows       *)
(* while the program runs.  It starts empty; a newarray that completes     *)
(* adds one entry and pushes the number of entries there were before it,   *)
(* so the k-th newarray of a run pushes k - 1, which is below the number   *)
(* of entries after it; no other instruction changes the number of         *)
(* entries; the entries already there keep their place, and an array made  *)
(* in a callee is the same, reference, length and contents, after the      *)
(* callee has returned.                                                    *)
(***************************************************************************)
\* the arrays of h are in g at the same references
KeepsPlace(h, g) == Len(g) >= Len(h) /\ \A r \in 1 .. Len(h) : g[r] = h[r]

C16_Step ==
    \/ ~Completed
    \/ /\ Dispatch(i_newarray) /\ Has(1) =>
             /\ Len(heap') = Len(heap) + 1
             /\ KeepsPlace(heap, heap')
             /\ After.stack[idx - 1] = Len(heap)
             /\ After.stack[idx - 1] < Len(heap')
             /\ After.idx = idx
       /\ ~Dispatch(i_newarray) => Len(heap') = Len(heap)
       /\ ~Dispatch(i_iastore) => KeepsPlace(heap, heap')
       /\ ReturnsToCaller => heap' = heap

C16_HeapGrows == heap = <<>> /\ [][C16_Step]_vars

\* mk has returned the second array of the run, holding 9, by areturn:
\* main has its reference 1 on the stack and the array is in the heap
C16_Witness ==
    /\ class = TwoArraysClass(7)
    /\ status = "Running"
    /\ Top = 1
    /\ pc = 7
    /\ idx = 1
    /\ stack[0] = 1
    /\ Len(heap) = 2
    /\ RecordedLength(heap, 2) = 1
    /\ Element(heap, 2, 0) = 9

(***************************************************************************)
(* C17.  nop, getstatic and every opcode without a case leave the stack    *)
(* and its depth, the locals, the heap and the output as they are.  nop    *)
(* and an opcode without a case advance pc by 1, so the byte after such    *)
(* an opcode is dispatched as an opcode; getstatic advances pc by 3        *)
(* whatever its index bytes are.                                           *)
(***************************************************************************)
\* the instruction at pc is nop, getstatic or an opcode without a case
Skips ==
    /\ InLoop
    /\ bytecode(pc) \in {i_nop, i_getstatic} \/ bytecode(pc) \notin KnownOpcodes

C17_Step ==
    Skips =>
       /\ InPlace
       /\ After.pc = pc + (IF bytecode(pc) = i_getstatic THEN 3 ELSE 1)
       /\ After.idx = idx
       /\ After.stack = stack
       /\ After.locals = locals
       /\ SubSeq(frames', 1, Top - 1) = SubSeq(frames, 1, Top - 1)
       /\ heap' = heap
       /\ out' = out
       /\ unwritten' = unwritten

C17_NoEffect == [][C17_Step]_vars

\* after bipush 7 and the opcode 199 at address 2, the two bytes that
\* follow it were dispatched: iconst_1 and iconst_2 are on the stack
C17_Witness ==
    /\ class = FillerClass(<<199, i_iconst_1, i_iconst_2>>)
    /\ status = "Running"
    /\ pc = 5
    /\ idx = 3
    /\ stack[1] = 1
    /\ stack[2] = 2

(***************************************************************************)
(* C18.  Activations are isolated.  While a callee or any activation       *)
(* under it runs, recursive calls included, the locals, the pc and the     *)
(* stack cells below the popped arguments of every suspended caller stay   *)
(* as they are; when the callee returns, its caller has the same locals    *)
(* and the same cells, with at most the returned value on top.             *)
(***************************************************************************)
\* the cells of activation f that hold values
Live(f) == {c \in DOMAIN f.stack : c < f.idx}

\* activation g is f with the same locals and the same live cells
SameCaller(f, g) ==
    /\ g.method = f.method
    /\ g.locals = f.locals
    /\ \A c \in Live(f) : g.stack[c] = f.stack[c]

C18_Rest ==
    /\ \A k \in 1 .. Top - 1 :
          k <= Len(frames') =>
             /\ SameCaller(frames[k], frames'[k])
             /\ k < Len(frames') => frames'[k] = frames[k]
             /\ k = Len(frames') =>
                   /\ frames'[k].pc = frames[k].pc + 3
                   /\ frames'[k].idx \in {frames[k].idx, frames[k].idx + 1}
    /\ StartsCallee =>
          /\ After.locals = locals
          /\ After.pc = pc
          /\ After.idx <= idx
          /\ \A c \in Live(After) : After.stack[c] = stack[c]

C18_Step == Completed => C18_Rest

C18_Isolation == [][C18_Step]_vars

\* the same in the classes whose methods are stack-well-formed
C18_WellFormed == [][Completed /\ StackWellFormed(class) => C18_Rest]_vars

\* g has executed iadd on its empty stack: the 5 main holds in its live
\* cell 0 while g runs has been overwritten
C18_Witness ==
    /\ class = BelowClass
    /\ status = "Running"
    /\ Top = 2
    /\ frames[1].idx = 1
    /\ frames[1].stack[0] # 5

(***************************************************************************)
(* C19.  An iastore of v at an index i within the length n of the array    *)
(* with reference r changes element i of that array and nothing else: the  *)
(* recorded length and the other elements of the array, every other array  *)
(* of the heap and the locals are as before.  iaload and arraylength       *)
(* change no array.                                                        *)
(***************************************************************************)
\* the iastore at pc stores within the length of an array of the heap
StoresInRange ==
    /\ Dispatch(i_iastore)
    /\ Has(3)
    /\ Issued(stack[idx - 3])
    /\ stack[idx - 2] >= 0
    /\ stack[idx - 2] < RecordedLength(heap, stack[idx - 3] + 1)
    /\ stack[idx - 2] \in Indices(heap, stack[idx - 3] + 1)

C19_Step ==
    \/ ~Completed
    \/ /\ StoresInRange =>
             /\ DOMAIN heap' = DOMAIN heap
             /\ \A r \in DOMAIN heap :
                   /\ DOMAIN heap'[r] = DOMAIN heap[r]
                   /\ \A k \in DOMAIN heap[r] :
                         \/ r = stack[idx - 3] + 1 /\ k = stack[idx - 2] + 1
                         \/ heap'[r][k] = heap[r][k]
             /\ Element(heap', stack[idx - 3] + 1, stack[idx - 2]) = stack[idx - 1]
             /\ After.locals = locals
             /\ SubSeq(frames', 1, Top - 1) = SubSeq(frames, 1, Top - 1)
       /\ Dispatch(i_iaload) \/ Dispatch(i_arraylength) => heap' = heap

C19_StoreOnly == [][C19_Step]_vars

\* a[0] = 7 stored while b = {9} is in the heap: a is {7, 0} of length 2,
\* b is as mk made it
C19_Witness ==
    /\ class = TwoArraysClass(7)
    /\ status = "Running"
    /\ Top = 1
    /\ pc = 13
    /\ heap = <<[k \in 0 .. 2 |-> IF k = 0 THEN 2 ELSE IF k = 1 THEN 7 ELSE 0],
                [k \in 0 .. 1 |-> IF k = 0 THEN 1 ELSE 9]>>

(***************************************************************************)
(* C20.  An instruction that completes in its activation moves pc          *)
(* forward, unless it is a goto or a taken branch whose offset is 0 or     *)
(* negative; a caller resumes after its invokestatic.  Hence a program in  *)
(* which every branch offset is positive and no method can call itself,    *)
(* directly or through others, always comes to an end.  Nothing else ends  *)
(* a run: a branch never stops the program, and an activation at a goto    *)
(* with offset 0 stays where it is for ever.                               *)
(***************************************************************************)
\* the offset of the branch at pc
OffsetAtPc == Offset16(bytecode(pc + 1), bytecode(pc + 2))

\* every byte of cls that is a branch opcode is followed by a positive offset
PositiveOffsets(cls) ==
    \A m \in DOMAIN cls.methods :
       LET c == cls.methods[m].code
       IN  \A a \in DOMAIN c.code :
              c.code[a] \in BranchOps =>
                 Offset16(CodeByte(c, a + 1), CodeByte(c, a + 2)) > 0

\* the methods the invokestatic bytes of method m name
Calls(cls, m) ==
    LET c == cls.methods[m].code
    IN  {Callee(cls, c, a) : a \in {b \in DOMAIN c.code : c.code[b] = i_invokestatic}}
           \ {0}

RECURSIVE CalledFrom(_, _, _)
\* the methods reached from the methods ms in at most n calls
CalledFrom(cls, ms, n) ==
    IF n = 0 THEN {}
    ELSE LET next == UNION {Calls(cls, m) : m \in ms}
         IN  next \cup CalledFrom(cls, next, n - 1)

\* no method of cls can call itself
Acyclic(cls) ==
    \A m \in DOMAIN cls.methods : m \notin CalledFrom(cls, {m}, Len(cls.methods))

C20_Step ==
    /\ InPlace /\ InLoop =>
          \/ After.pc > pc
          \/ Branching /\ OffsetAtPc <= 0 /\ After.pc = pc + OffsetAtPc
    /\ ReturnsToCaller => frames'[Top - 1].pc > frames[Top - 1].pc
    /\ StartsCallee => After.pc = pc /\ frames'[Top + 1].pc = 0
    /\ Branching /\ Has(IF bytecode(pc) \in Branches2 THEN 2
                        ELSE IF bytecode(pc) \in Branches1 THEN 1 ELSE 0) =>
          status' = "Running" /\ InPlace
    /\ Dispatch(i_goto) /\ OffsetAtPc = 0 => FALSE

C20_Progress ==
    /\ [][C20_Step]_vars
    /\ (PositiveOffsets(class) /\ Acyclic(class)) ~> (status # "Running")

\* a program with a forward branch only has taken it and come to its end
C20_Witness ==
    /\ class = ForwardClass(i_goto, 0, 0)
    /\ PositiveOffsets(class)
    /\ Acyclic(class)
    /\ status = "Exited"
    /\ out = <<FormatInt(2)>>

\* main is at its goto with offset 0
C20_Looping ==
    /\ class = LoopClass
    /\ status = "Running"
    /\ Dispatch(i_goto)
    /\ OffsetAtPc = 0

=============================================================================
